---- MODULE Spec2Model ----
(***************************************************************************)
(* The local store of the KZ pool scraper (btcpool_scraper.py), the pool   *)
(* manager (manage_pools.py) and the uploader (upload_to_supabase.py) as   *)
(* one state machine.                                                      *)
(*                                                                         *)
(* Strings that the code parses are sequences of one-character strings,    *)
(* so that the regular expression search, float() and int() are computed   *)
(* and not assumed.  Floating point values are exact rationals <<n, d>>    *)
(* with d > 0.  The store is the set of committed rows: a connection's     *)
(* uncommitted rows are local to the operation that wrote them.  The five  *)
(* tables exist (setup_database has run on the store file at least once).  *)
(* Columns that no operation reads back are left out of the rows:          *)
(* observer_url, the descriptive pool metadata other than pool_name,       *)
(* updated_at, recorded_at, and a worker's hashrates and last exchange.    *)
(***************************************************************************)
EXTENDS Integers, Sequences, FiniteSets, TLC

\* ------------------------------------------------------------------ bounds
MaxCycles == 2          \* scrape cycles started over one behaviour of Spec
MaxDetectCycles == 3    \* scrape cycles started over one behaviour of SpecDetect
MaxOps == 2             \* pool manager commands over one behaviour
MaxDrift == 1           \* seconds that may pass between two INSERTs of one save
MaxExtractCycles == 2   \* scrape cycles started over one behaviour of SpecExtract
MaxIncomeCycles == 2    \* scrape cycles started over one behaviour of SpecIncome
MaxDeviceCycles == 1    \* scrape cycles started over one behaviour of SpecDevices
MaxRemoteCycles == 1    \* scrape cycles started over one behaviour of SpecRemote
MaxAlertCycles == 2     \* scrape cycles started over one behaviour of SpecAlert
MaxFrameCycles == 2     \* scrape cycles started over one behaviour of SpecFrame
MaxSharedCycles == 2    \* scrape cycles started over one behaviour of SpecShared
MaxMainCycles == 2      \* scrape cycles started over one behaviour of SpecMain
MaxWorkerCycles == 1    \* scrape cycles started over one behaviour of SpecWorkers
MaxTableRows == 2       \* rows of the worker table of a page

\* ------------------------------------------------------- program constants
HistoryLimit == 10      \* LIMIT 10 of the hashrate history query
DropFactorNum == 4      \* 0.8 = 4/5
DropFactorDen == 5
HighDropPercent == 30   \* drop_percent > 30 -> HIGH
HighOfflineCount == 5   \* offline_count > 5 -> HIGH
OfflineNamesShown == 5  \* offline_workers[:5]
EarningsLimit == 30     \* LIMIT 30 of the income query
DeviceCap == 200        \* workers[:200]
BatchSize == 50         \* device records per insert_batch call
HighAlertCount == 5     \* offline_workers > 5 -> 'high'
BusyTimeout == 5        \* sqlite3.connect(self.db_path): the default timeout, in seconds
CellsNeeded == 5        \* cells.length >= 5

ValueError == "ValueError"
ZeroDivisionError == "ZeroDivisionError"
OperationalError == "OperationalError"

\* ------------------------------------------------------------- characters
DigitChars == {"0", "1", "2", "3", "4", "5", "6", "7", "8", "9"}
NumChars == DigitChars \cup {"."}
SpaceChars == {" "}
PrefixChars == {"T", "G", "M", "P"}

DigitVal(c) ==
    CASE c = "0" -> 0 [] c = "1" -> 1 [] c = "2" -> 2 [] c = "3" -> 3
      [] c = "4" -> 4 [] c = "5" -> 5 [] c = "6" -> 6 [] c = "7" -> 7
      [] c = "8" -> 8 [] c = "9" -> 9

\* ASCII order of the characters that occur in date strings
CharCode(c) == IF c = "/" THEN 47 ELSE 48 + DigitVal(c)

RECURSIVE Pow10(_)
Pow10(k) == IF k = 0 THEN 1 ELSE 10 * Pow10(k - 1)

\* ---------------------------------------------------------------- rationals
RECURSIVE Gcd(_, _)
Gcd(a, b) == IF b = 0 THEN a ELSE Gcd(b, a % b)

Q(n, d) == LET g == Gcd(IF n < 0 THEN -n ELSE n, d)
           IN  IF g = 0 THEN <<0, 1>> ELSE <<n \div g, d \div g>>
QZero == <<0, 1>>
QAdd(a, b) == Q(a[1] * b[2] + b[1] * a[2], a[2] * b[2])
QSub(a, b) == Q(a[1] * b[2] - b[1] * a[2], a[2] * b[2])
QMul(a, b) == Q(a[1] * b[1], a[2] * b[2])
QLess(a, b) == a[1] * b[2] < b[1] * a[2]
QEq(a, b) == a[1] * b[2] = b[1] * a[2]
\* a / b for b # 0 (b > 0 wherever the code divides)
QDiv(a, b) == IF b[1] < 0 THEN Q(-(a[1] * b[2]), -(a[2] * b[1]))
              ELSE Q(a[1] * b[2], a[2] * b[1])

\* ------------------------------------------------------ int() and float()
\* the result of a call that may raise: err is "" or the exception's name
Ok(v) == [err |-> "", val |-> v]
Raise(e) == [err |-> e, val |-> 0]

\* int(s) of a stripped string: decimal digits only
IsIntLiteral(s) == Len(s) > 0 /\ \A i \in 1..Len(s) : s[i] \in DigitChars

RECURSIVE DigitsValue(_)
DigitsValue(s) ==
    IF Len(s) = 0 THEN 0
    ELSE 10 * DigitsValue(SubSeq(s, 1, Len(s) - 1)) + DigitVal(s[Len(s)])

int(s) == IF IsIntLiteral(s) THEN Ok(DigitsValue(s)) ELSE Raise(ValueError)

\* float(tok): digits with at most one dot and at least one digit (signs,
\* exponents, inf and nan do not occur in the strings of the model)
IsFloatLiteral(tok) ==
    /\ \A i \in 1..Len(tok) : tok[i] \in NumChars
    /\ Cardinality({i \in 1..Len(tok) : tok[i] = "."}) <= 1
    /\ \E i \in 1..Len(tok) : tok[i] \in DigitChars

float(tok) ==
    IF ~IsFloatLiteral(tok) THEN Raise(ValueError)
    ELSE LET dots == {i \in 1..Len(tok) : tok[i] = "."}
             decimals == IF dots = {} THEN 0 ELSE Len(tok) - (CHOOSE i \in dots : TRUE)
             digits == SelectSeq(tok, LAMBDA c : c \in DigitChars)
         IN  Ok(Q(DigitsValue(digits), Pow10(decimals)))

\* ------------------------------------- re.search(r'([\d.]+)\s*([TGMP]?H/s)')
\* end of the maximal run of characters of S that starts at i (i - 1 if none)
RunEnd(s, i, S) ==
    CHOOSE j \in (i - 1)..Len(s) :
        /\ \A k \in i..j : s[k] \in S
        /\ (j = Len(s) \/ s[j + 1] \notin S)

HsAt(s, k) == k + 2 <= Len(s) /\ s[k] = "H" /\ s[k + 1] = "/" /\ s[k + 2] = "s"

\* the unit matched at k: <<prefix, "H", "/", "s">>, <<"H", "/", "s">>, or <<>> for none
UnitAt(s, k) ==
    IF k <= Len(s) /\ s[k] \in PrefixChars /\ HsAt(s, k + 1) THEN SubSeq(s, k, k + 3)
    ELSE IF HsAt(s, k) THEN SubSeq(s, k, k + 2)
    ELSE <<>>

MatchAt(s, i) ==
    /\ s[i] \in NumChars
    /\ UnitAt(s, RunEnd(s, RunEnd(s, i, NumChars) + 1, SpaceChars) + 1) # <<>>

\* the leftmost match: [found, num (group 1), unit (group 2)]
re_search(s) ==
    LET starts == {i \in 1..Len(s) : MatchAt(s, i)}
    IN  IF starts = {} THEN [found |-> FALSE, num |-> <<>>, unit |-> <<>>]
        ELSE LET i == CHOOSE x \in starts : \A y \in starts : x <= y
                 j == RunEnd(s, i, NumChars)
             IN  [found |-> TRUE, num |-> SubSeq(s, i, j),
                  unit |-> UnitAt(s, RunEnd(s, j + 1, SpaceChars) + 1)]

\* conversions.get(unit, 1)
conversions(unit) ==
    CASE unit = <<"P", "H", "/", "s">> -> <<1000, 1>>
      [] unit = <<"T", "H", "/", "s">> -> <<1, 1>>
      [] unit = <<"G", "H", "/", "s">> -> <<1, 1000>>
      [] unit = <<"M", "H", "/", "s">> -> <<1, 1000000>>
      [] OTHER -> <<1, 1>>

\* value * conversions.get(unit, 1), given what float(match.group(1)) gave
Converted(value, unit) ==
    IF value.err # "" THEN value ELSE Ok(QMul(value.val, conversions(unit)))

\* if not match: return 0
FromMatch(match) ==
    IF ~match.found THEN Ok(QZero) ELSE Converted(float(match.num), match.unit)

\* BTCPoolScraper.parse_hashrate_to_ths: Ok(rational), or ValueError when float() raises
parse_hashrate_to_ths(hashrate_str) ==
    IF hashrate_str = <<>> THEN Ok(QZero) ELSE FromMatch(re_search(hashrate_str))

\* ----------------------------------------------------------------- inputs
Pools == {"p1", "p2"}

\* text of the page, as the Extractor hands it over
Str100T == <<"1", "0", "0", " ", "T", "H", "/", "s">>
Str70T == <<"7", "0", " ", "T", "H", "/", "s">>
Str005P == <<"0", ".", "0", "5", " ", "P", "H", "/", "s">>
StrBadNum == <<"1", ".", "2", ".", "3", " ", "T", "H", "/", "s">>
StrNA == <<"N", "/", "A">>
Date1Feb == <<"1", "/", "2", "/", "2", "0", "2", "4">>
Date15Jan == <<"1", "5", "/", "1", "/", "2", "0", "2", "4">>
Btc01 == <<"0", ".", "1", " ", "B", "T", "C">>
Btc02 == <<"0", ".", "2", " ", "B", "T", "C">>

DigitChar(k) == <<"0", "1", "2", "3", "4", "5", "6", "7", "8", "9">>[k + 1]

RECURSIVE Decimal(_)
Decimal(n) == IF n < 10 THEN <<DigitChar(n)>> ELSE Decimal(n \div 10) \o <<DigitChar(n % 10)>>

\* the name cell of a row of the workers table: 'Rig 01', 'Rig 02', ..
Rig(k) == <<"R", "i", "g", " ">> \o (IF k < 10 THEN <<"0">> ELSE <<>>) \o Decimal(k)

Worker(n, st) == [name |-> n, status |-> st]
Earning(d, inc, hr) == [date |-> d, total_income |-> inc, hashrate |-> hr]
Data(s, w, e) == [summary |-> s, workers |-> w, daily_earnings |-> e]
NoData == Data(<<>>, <<>>, <<>>)

\* What page.evaluate may return (btcpool_scraper.py:196-266), per specification.
SummaryFull == [current_hashrate |-> Str100T, online_workers |-> <<"4", "2">>,
                offline_workers |-> <<"0">>, balance |-> Btc01]
SummaryDrop == [current_hashrate |-> Str70T, online_workers |-> <<"3", "6">>,
                offline_workers |-> <<"6">>]

\* Spec: rows of every table, two dates, a date twice in one save
StoreData ==
    { Data(SummaryFull, <<Worker(Rig(1), "ONLINE")>>, <<Earning(Date1Feb, Btc01, Str100T)>>),
      Data(SummaryDrop, <<Worker(Rig(1), "OFFLINE"), Worker(Rig(2), "ONLINE")>>,
           <<Earning(Date1Feb, Btc02, Str70T), Earning(Date15Jan, Btc01, Str100T)>>),
      Data(<<>>, <<>>,
           <<Earning(Date15Jan, Btc02, Str100T), Earning(Date15Jan, StrNA, Str70T)>>) }
StoreInputs ==
    ({"p1"} \X StoreData)
    \cup {<<"p2", Data(SummaryDrop, <<Worker(Rig(9), "OFFLINE")>>,
                       <<Earning(Date1Feb, Btc01, Str100T)>>)>>}

\* SpecSync: the inputs of Spec and, on pool p2, a summary whose hashrates are
\* not whole numbers of TH/s
Str05T == <<"0", ".", "5", " ", "T", "H", "/", "s">>
Str1500G == <<"1", "5", "0", "0", " ", "G", "H", "/", "s">>
SummaryFraction == [current_hashrate |-> Str05T, avg_hashrate_24h |-> Str1500G,
                    online_workers |-> <<"3">>, offline_workers |-> <<"1">>]
SyncInputs == StoreInputs \cup {<<"p2", Data(SummaryFraction, <<>>, <<>>)>>}

\* SpecDetect: the summaries that drive the two rules, on pool p1; pool p2
\* only adds rows of another pool to the history table
DetectData ==
    { Data([current_hashrate |-> Str100T, offline_workers |-> <<"0">>], <<>>, <<>>),
      Data(SummaryDrop, <<Worker(Rig(1), "OFFLINE")>>, <<>>),
      Data([current_hashrate |-> Str005P, offline_workers |-> <<"5">>], <<>>, <<>>),
      Data([current_hashrate |-> StrBadNum, offline_workers |-> <<"5">>], <<>>, <<>>),
      Data([current_hashrate |-> Str005P, offline_workers |-> StrNA], <<>>, <<>>),
      Data([online_workers |-> <<"4", "2">>], <<>>, <<>>),
      NoData }
DetectInputs ==
    ({"p1"} \X DetectData)
    \cup {<<"p2", Data([current_hashrate |-> Str100T, offline_workers |-> <<"0">>],
                       <<>>, <<>>)>>}

\* SpecIncome: earnings tables of one month and more, as the earnings table of
\* the page lists them: dates of the shape D/M/YYYY (btcpool_scraper.py:255)
DateOf(day, month) == Decimal(day) \o <<"/">> \o Decimal(month) \o <<"/", "2", "0", "2", "4">>

\* the first days of January 2024; the income cell of the 5th is not a number
January(days) ==
    [d \in 1..days |-> Earning(DateOf(d, 1), IF d = 5 THEN StrNA ELSE Btc01, Str100T)]

IncomeInputs ==
    { <<"p1", Data(SummaryFull, <<>>, January(29))>>,
      <<"p1", Data(SummaryFull, <<>>, January(31))>>,
      <<"p1", Data(SummaryFull, <<>>, <<Earning(Date1Feb, Btc02, Str100T)>>)>>,
      <<"p2", Data(SummaryFull, <<>>, <<Earning(Date1Feb, Btc01, Str70T)>>)>> }

\* SpecFrame: a cycle of pool p1 that writes to every table, anomaly_log
\* included, and a cycle of pool p2
FrameInputs ==
    { <<"p1", Data(SummaryDrop, <<Worker(Rig(1), "OFFLINE")>>,
                   <<Earning(Date1Feb, Btc01, Str70T)>>)>>,
      <<"p2", Data(SummaryFull, <<Worker(Rig(9), "ONLINE")>>, <<>>)>> }

\* SpecAlert: summaries whose offline count lies on either side of the two
\* thresholds of the offline rules
AlertInputs ==
    { <<"p1", Data([current_hashrate |-> Str100T, online_workers |-> <<"4", "2">>,
                    offline_workers |-> n], <<>>, <<>>)>> :
        n \in {<<"0">>, <<"1">>, <<"5">>, <<"6">>} }

\* SpecRemote: a cycle whose upload makes every kind of remote call, and one
\* whose upload makes the first two only
RemoteInputs ==
    { <<"p1", Data(SummaryDrop, <<Worker(Rig(1), "OFFLINE")>>,
                   <<Earning(Date1Feb, Btc01, Str70T)>>)>>,
      <<"p1", Data(SummaryFull, <<>>, <<>>)>> }

\* SpecDevices: worker tables around the batch size and the cap of the device
\* upload, every third worker offline
Rigs(n) == [k \in 1..n |-> Worker(Rig(k), IF k % 3 = 0 THEN "OFFLINE" ELSE "ONLINE")]

DeviceInputs ==
    { <<"p1", Data(SummaryFull, Rigs(n), <<>>)>> : n \in {0, 50, 51, 200, 201} }
    \cup { <<"p2", Data(SummaryDrop, Rigs(2), <<>>)>> }

\* --account: the account names that the uploaders of the two pools are run with
AccountName(account) ==
    IF account = "p1" THEN <<"a", "c", "c", "t", "-", "a">>
    ELSE <<"a", "c", "c", "t", " ", "b">>

\* dict.get(key, default)
get(d, key, default) == IF key \in DOMAIN d THEN d[key] ELSE default

\* ------------------------------------------------------------------ state
VARIABLES
    pool_metadata,    \* set of rows, PRIMARY KEY pool_id
    pool_summary,     \* rows in rowid order
    worker_status,    \* rows in rowid order
    daily_earnings,   \* rows in rowid order, UNIQUE(pool_id, date)
    anomaly_log,      \* rows in rowid order
    sqlite_sequence,  \* AUTOINCREMENT: the largest id each table has handed out
    now,              \* CURRENT_TIMESTAMP, in seconds
    pc,               \* per pool: where its scraper stands
    data,             \* per pool: what scrape_data extracted in the running cycle
    cycle,            \* per pool: the number of its running (or last) cycle
    cycles,           \* scrape cycles started so far
    ops,              \* pool manager commands run so far
    lastrowid,        \* per pool: id of the Snapshot row its last save inserted, 0 if none
    write_failed,     \* per pool: a step of the save of its running cycle raised
    chk,              \* what the last check_anomalies read, computed and inserted
    sent,             \* what the last upload_latest read and handed to the remote calls
    last_saved,       \* per (pool, date): the earning of the last committed save holding it
    norm,             \* the last string normalized on its own, and what the two parsers gave
    page              \* per pool: the lines of the page of its running cycle

tables == <<pool_metadata, pool_summary, worker_status, daily_earnings, anomaly_log,
            sqlite_sequence>>
vars == <<pool_metadata, pool_summary, worker_status, daily_earnings, anomaly_log,
          sqlite_sequence, now, pc, data, cycle, cycles, ops, lastrowid, write_failed, chk,
          sent, last_saved, norm, page>>

Dates == {Date1Feb, Date15Jan}
NoEarning == [set |-> FALSE, total_income |-> <<>>, hashrate |-> <<>>]
NoCheck == [pool |-> "", cycle |-> 0, err |-> "", offline |-> <<>>, history |-> <<>>,
            queried |-> FALSE, fetched |-> <<>>, current_hr |-> <<>>, ownrow |-> 0,
            appended |-> <<>>]
NoNorm == [value |-> <<>>, space |-> <<>>, unit |-> <<>>, text |-> <<>>,
           ths |-> Ok(QZero), sample |-> Ok(0)]
NoPage == <<>>
NoUpload == [account |-> "", result |-> "", summary |-> <<>>, workers |-> <<>>,
             earnings |-> <<>>, account_data |-> <<>>, hashrate |-> <<>>,
             devices |-> <<>>, income |-> <<>>, alert |-> <<>>, calls |-> <<>>]

Init ==
    /\ pool_metadata = {}
    /\ pool_summary = <<>>
    /\ worker_status = <<>>
    /\ daily_earnings = <<>>
    /\ anomaly_log = <<>>
    /\ sqlite_sequence = [pool_summary |-> 0, worker_status |-> 0, daily_earnings |-> 0,
                          anomaly_log |-> 0]
    /\ now = 0
    /\ pc = [p \in Pools |-> "none"]
    /\ data = [p \in Pools |-> NoData]
    /\ cycle = [p \in Pools |-> 0]
    /\ cycles = 0
    /\ ops = 0
    /\ lastrowid = [p \in Pools |-> 0]
    /\ write_failed = [p \in Pools |-> FALSE]
    /\ chk = NoCheck
    /\ sent = NoUpload
    /\ last_saved = [k \in Pools \X Dates |-> NoEarning]
    /\ norm = NoNorm
    /\ page = [p \in Pools |-> NoPage]

\* ------------------------------------------- BTCPoolScraper.setup_database
\* INSERT OR REPLACE INTO pool_metadata: the row of the pool, if any, is deleted
\* and a new one inserted; active and created_at are not in the column list
\* and take their defaults
MetadataRow(p, name, t) ==
    [pool_id |-> p, pool_name |-> name, active |-> 1, created_at |-> t]

ReplaceMetadata(meta, p, name, t) ==
    {r \in meta : r.pool_id # p} \cup {MetadataRow(p, name, t)}

ConfigName(p) == "configured"

\* BTCPoolScraper.__init__: a scraper for pool p is constructed
setup_database(p) ==
    /\ pc[p] \in {"none", "done", "failed"}
    /\ pool_metadata' = ReplaceMetadata(pool_metadata, p, ConfigName(p), now)
    /\ pc' = [pc EXCEPT ![p] = "ready"]
    /\ UNCHANGED <<pool_summary, worker_status, daily_earnings, anomaly_log,
                   sqlite_sequence, now, data, cycle, cycles, ops, lastrowid, write_failed,
                   chk, sent, last_saved, norm, page>>

\* ------------------------------------------------ BTCPoolScraper.scrape_data
\* main() calls scrape_data once on each scraper it constructs.  The page is
\* loaded and evaluated; time.sleep(5) lets at least a second pass.
\* text: the lines of the page, NoPage where a specification draws the result
\* of the evaluation directly; d: what page.evaluate returns for it
scrape_data(p, text, d, max) ==
    /\ pc[p] = "ready"
    /\ cycles < max
    /\ cycles' = cycles + 1
    /\ cycle' = [cycle EXCEPT ![p] = cycles + 1]
    /\ page' = [page EXCEPT ![p] = text]
    /\ data' = [data EXCEPT ![p] = d]
    /\ now' = now + 1
    /\ pc' = [pc EXCEPT ![p] = "extracted"]
    /\ write_failed' = [write_failed EXCEPT ![p] = FALSE]
    /\ UNCHANGED <<tables, ops, lastrowid, chk, sent, last_saved, norm>>

\* -------------------------------------------- BTCPoolScraper.save_to_database
\* The statements of one save, in execution order.  dt is the time that has
\* passed since the connection was opened when the statement runs.
SaveStatements(d, offs) ==
    (IF DOMAIN d.summary # {} THEN <<[kind |-> "summary", idx |-> 0, dt |-> 0]>> ELSE <<>>)
    \o [i \in 1..Len(d.workers) |-> [kind |-> "worker", idx |-> i, dt |-> offs[i]]]
    \o [j \in 1..Len(d.daily_earnings) |-> [kind |-> "earning", idx |-> j, dt |-> 0]]

\* the non-decreasing clock readings of n INSERTs
Offsets(n, drift) ==
    {o \in [1..n -> 0..drift] : \A i \in 1..n : \A j \in i..n : o[i] <= o[j]}

SummaryRow(id, t, p, s) ==
    [id |-> id, timestamp |-> t, pool_id |-> p,
     current_hashrate |-> get(s, "current_hashrate", <<>>),
     avg_hashrate_24h |-> get(s, "avg_hashrate_24h", <<>>),
     online_workers |-> get(s, "online_workers", <<"0">>),
     offline_workers |-> get(s, "offline_workers", <<"0">>),
     balance |-> get(s, "balance", <<>>),
     last_income |-> get(s, "last_income", <<>>)]

WorkerRow(id, t, p, w) ==
    [id |-> id, timestamp |-> t, pool_id |-> p, worker_name |-> w.name, status |-> w.status]

EarningRow(id, p, e) ==
    [id |-> id, pool_id |-> p, date |-> e.date, total_income |-> e.total_income,
     hashrate |-> e.hashrate]

Db == [pool_summary |-> pool_summary, worker_status |-> worker_status,
       daily_earnings |-> daily_earnings, sqlite_sequence |-> sqlite_sequence]

NextId(db, table) == db.sqlite_sequence[table] + 1
Bump(db, table) == [db.sqlite_sequence EXCEPT ![table] = @ + 1]

InsertSummary(db, t, p, s) ==
    [db EXCEPT !.pool_summary = Append(@, SummaryRow(NextId(db, "pool_summary"), t, p, s)),
               !.sqlite_sequence = Bump(db, "pool_summary")]

\* an INSERT OR REPLACE keyed by pool and worker: one row per worker is kept
InsertOrReplaceWorker(db, t, p, w) ==
    [db EXCEPT !.worker_status =
                   Append(SelectSeq(@, LAMBDA r : ~(r.pool_id = p /\ r.worker_name = w.name)),
                          WorkerRow(NextId(db, "worker_status"), t, p, w)),
               !.sqlite_sequence = Bump(db, "worker_status")]

InsertWorker(db, t, p, w) ==
    [db EXCEPT !.worker_status = Append(@, WorkerRow(NextId(db, "worker_status"), t, p, w)),
               !.sqlite_sequence = Bump(db, "worker_status")]

\* a plain INSERT into a table without the UNIQUE constraint: rows accumulate
InsertEarning(db, p, e) ==
    [db EXCEPT !.daily_earnings = Append(@, EarningRow(NextId(db, "daily_earnings"), p, e)),
               !.sqlite_sequence = Bump(db, "daily_earnings")]

\* INSERT OR REPLACE under UNIQUE(pool_id, date): the row in conflict is deleted
InsertOrReplaceEarning(db, p, e) ==
    [db EXCEPT !.daily_earnings =
                   Append(SelectSeq(@, LAMBDA r : ~(r.pool_id = p /\ r.date = e.date)),
                          EarningRow(NextId(db, "daily_earnings"), p, e)),
               !.sqlite_sequence = Bump(db, "daily_earnings")]

Execute(db, t, p, d, st) ==
    CASE st.kind = "summary" -> InsertSummary(db, t + st.dt, p, d.summary)
      [] st.kind = "worker" -> InsertWorker(db, t + st.dt, p, d.workers[st.idx])
      [] st.kind = "earning" -> InsertOrReplaceEarning(db, p, d.daily_earnings[st.idx])

\* the connection's view after the statements lo..hi, run in their order: the
\* first half of them, then the second half on the view that the first left
RECURSIVE Run(_, _, _, _, _, _, _)
Run(db, t, p, d, stmts, lo, hi) ==
    IF lo > hi THEN db
    ELSE IF lo = hi THEN Execute(db, t, p, d, stmts[lo])
    ELSE CHOOSE after \in {Run(between, t, p, d, stmts, (lo + hi) \div 2 + 1, hi) :
                              between \in {Run(db, t, p, d, stmts, lo, (lo + hi) \div 2)}} :
             TRUE

\* the connection's view after the first k statements
Transaction(db, t, p, d, stmts, k) == Run(db, t, p, d, stmts, 1, k)

\* a connection in autocommit mode: the statements before the failing one stay
SaveAutocommit(db, t, p, d, stmts, failed) ==
    Transaction(db, t, p, d, stmts, IF failed = 0 THEN Len(stmts) ELSE failed - 1)

\* What the store holds after the call.  failed = 0: every statement and
\* conn.commit() ran.  failed = k > 0: the k-th step raised (the commit is
\* step Len(stmts) + 1); the connection is dropped without a commit and its
\* rows are rolled back.
SaveVisible(db, t, p, d, stmts, failed) ==
    IF failed = 0 THEN Transaction(db, t, p, d, stmts, Len(stmts)) ELSE db

\* the earnings of a committed save, later entries of one date overriding earlier ones
RECURSIVE Remember(_, _, _, _)
Remember(saved, p, earnings, k) ==
    IF k = 0 THEN saved
    ELSE [Remember(saved, p, earnings, k - 1) EXCEPT ![<<p, earnings[k].date>>] =
              [set |-> TRUE, total_income |-> earnings[k].total_income,
               hashrate |-> earnings[k].hashrate]]

\* scrape_data, lines 275-283: save_to_database re-raises what it caught, and
\* so does scrape_data, before check_anomalies is reached
AfterSave(failed) == IF failed = 0 THEN "saved" ELSE "failed"

\* drift: the most that the clock may advance while the save runs;
\* faults: whether a write to the store may fail
save_to_database(p, drift, faults) ==
    /\ pc[p] = "extracted"
    /\ \E offs \in Offsets(Len(data[p].workers), drift) :
         LET stmts == SaveStatements(data[p], offs)
             elapsed == IF Len(offs) = 0 THEN 0 ELSE offs[Len(offs)]
         IN  \E failed \in 0..(IF faults THEN Len(stmts) + 1 ELSE 0) :
               LET db == SaveVisible(Db, now, p, data[p], stmts, failed)
               IN  /\ pool_summary' = db.pool_summary
                   /\ worker_status' = db.worker_status
                   /\ daily_earnings' = db.daily_earnings
                   /\ sqlite_sequence' = db.sqlite_sequence
                   /\ now' = now + elapsed
                   /\ write_failed' = [write_failed EXCEPT ![p] = failed # 0]
                   /\ pc' = [pc EXCEPT ![p] = AfterSave(failed)]
                   /\ IF failed = 0
                      THEN /\ lastrowid' = [lastrowid EXCEPT ![p] =
                                  IF DOMAIN data[p].summary # {}
                                  THEN NextId(Db, "pool_summary") ELSE 0]
                           /\ last_saved' = Remember(last_saved, p, data[p].daily_earnings,
                                                     Len(data[p].daily_earnings))
                           /\ UNCHANGED data
                      ELSE /\ data' = [data EXCEPT ![p] = NoData]
                           /\ UNCHANGED <<lastrowid, last_saved>>
    /\ UNCHANGED <<pool_metadata, anomaly_log, cycle, cycles, ops, chk, sent, norm, page>>

\* --------------------------------------------- BTCPoolScraper.check_anomalies
PoolRows(rows, p) == SelectSeq(rows, LAMBDA r : r.pool_id = p)

\* ORDER BY timestamp DESC: every order of the rows that is descending in
\* timestamp (SQL leaves the order of rows of equal timestamp open)
OrderByTimestampDesc(rows) ==
    LET n == Len(rows)
        perms == {f \in [1..n -> 1..n] :
                     /\ \A i \in 1..n : \A j \in 1..n : i # j => f[i] # f[j]
                     /\ \A i \in 1..n : \A j \in i..n :
                            rows[f[i]].timestamp >= rows[f[j]].timestamp}
    IN  {[i \in 1..n |-> rows[f[i]]] : f \in perms}

Limit(rows, n) == SubSeq(rows, 1, IF Len(rows) < n THEN Len(rows) ELSE n)

\* the query without its WHERE clause
HistoryOfAllPools(rows, p) ==
    {Limit(o, HistoryLimit) : o \in OrderByTimestampDesc(rows)}

\* SELECT current_hashrate FROM pool_summary WHERE pool_id = ?
\* ORDER BY timestamp DESC LIMIT 10: the possible results
HistoryQuery(rows, p) ==
    {Limit(o, HistoryLimit) : o \in OrderByTimestampDesc(PoolRows(rows, p))}

\* lines 356-364
OfflineRule(d) ==
    LET offline_count == IF "offline_workers" \in DOMAIN d.summary
                         THEN int(d.summary["offline_workers"]) ELSE Ok(0)
        offline_workers == SelectSeq(d.workers, LAMBDA w : w.status = "OFFLINE")
    IN  IF offline_count.err # "" THEN [err |-> offline_count.err, anomalies |-> <<>>]
        ELSE IF offline_count.val > 0
        THEN [err |-> "",
              anomalies |-> <<[type |-> "OFFLINE_WORKERS",
                  severity |-> IF offline_count.val > HighOfflineCount
                               THEN "HIGH" ELSE "MEDIUM",
                  description |->
                      [count |-> offline_count.val,
                       names |-> [i \in 1..Len(Limit(offline_workers, OfflineNamesShown))
                                     |-> offline_workers[i].name]]]>>]
        ELSE [err |-> "", anomalies |-> <<>>]

\* head + rest of two results, the first exception if one raised
AddParsed(head, rest) ==
    IF head.err # "" THEN head
    ELSE IF rest.err # "" THEN rest
    ELSE Ok(QAdd(head.val, rest.val))

RECURSIVE SumParsed(_, _)
\* sum(parse_hashrate_to_ths(hr[0]) for hr in history[k:]), ValueError if one raises
SumParsed(history, k) ==
    IF k > Len(history) THEN Ok(QZero)
    ELSE AddParsed(parse_hashrate_to_ths(history[k].current_hashrate),
                   SumParsed(history, k + 1))

\* current_value < avg_value * 0.8
DropFires(current_value, avg_value) ==
    QLess(current_value, QMul(avg_value, <<DropFactorNum, DropFactorDen>>))

\* the boundary taken as >= 30
DropSeverityAtLeast(drop_percent) ==
    IF QLess(drop_percent, <<HighDropPercent, 1>>) THEN "MEDIUM" ELSE "HIGH"

\* 'HIGH' if drop_percent > 30 else 'MEDIUM'
DropSeverity(drop_percent) ==
    IF QLess(<<HighDropPercent, 1>>, drop_percent) THEN "HIGH" ELSE "MEDIUM"

NoAnomaly == [err |-> "", anomalies |-> <<>>]
Raised(e) == [err |-> e, anomalies |-> <<>>]

\* ((avg_value - current_value) / avg_value) * 100, for avg_value # 0
DropPercent(current_value, avg_value) ==
    QMul(QDiv(QSub(avg_value, current_value), avg_value), <<100, 1>>)

\* lines 383-387
DropAnomaly(current_hr, drop_percent, avg_value) ==
    [type |-> "HASHRATE_DROP",
     severity |-> DropSeverity(drop_percent),
     description |-> [drop_percent |-> drop_percent, current |-> current_hr,
                      avg |-> avg_value]]

\* lines 380-387: the division raises when avg_value is 0
DropCheck(current_hr, current_value, avg_value) ==
    IF DropFires(current_value, avg_value)
    THEN IF avg_value[1] = 0 THEN Raised(ZeroDivisionError)
         ELSE [err |-> "",
               anomalies |-> <<DropAnomaly(current_hr,
                                           DropPercent(current_value, avg_value),
                                           avg_value)>>]
    ELSE NoAnomaly

\* lines 375-378, given the results of the parses: n = len(historical_hashrates[1:])
AgainstAverage(current_hr, current_value, total, n) ==
    IF current_value.err # "" THEN Raised(current_value.err)
    ELSE IF total.err # "" THEN Raised(total.err)
    ELSE DropCheck(current_hr, current_value.val, QDiv(total.val, <<n, 1>>))

\* data['summary'].get('current_hashrate', '0')
CurrentHashrate(d) == get(d.summary, "current_hashrate", <<"0">>)

\* lines 373-387, given the fetched rows
HashrateRule(d, historical_hashrates) ==
    IF Len(historical_hashrates) > 1
    THEN AgainstAverage(CurrentHashrate(d), parse_hashrate_to_ths(CurrentHashrate(d)),
                        SumParsed(historical_hashrates, 2), Len(historical_hashrates) - 1)
    ELSE NoAnomaly

AnomalyRow(id, t, p, a) ==
    [id |-> id, timestamp |-> t, pool_id |-> p, anomaly_type |-> a.type,
     description |-> a.description, severity |-> a.severity, resolved |-> 0]

\* One try block holds both rules and the inserts: an exception in either rule
\* leaves the list of anomalies unwritten and is swallowed (lines 399-400).
\* queried: the history query was reached.
TryBlock(rule1, rule2) ==
    IF rule1.err # "" THEN [err |-> rule1.err, anomalies |-> <<>>, queried |-> FALSE]
    ELSE IF rule2.err # "" THEN [err |-> rule2.err, anomalies |-> <<>>, queried |-> TRUE]
    ELSE [err |-> "", anomalies |-> rule1.anomalies \o rule2.anomalies, queried |-> TRUE]

\* the columns of a Snapshot row that the properties of detection look at
Shown(rows) ==
    [i \in 1..Len(rows) |-> [id |-> rows[i].id, timestamp |-> rows[i].timestamp,
                             current_hashrate |-> rows[i].current_hashrate]]

\* a check_anomalies without its except clause: the exception reaches scrape_data
AfterCheckRaises(err) == IF err = "" THEN "done" ELSE "failed"

\* lines 399-400 and 278-279: the except clause prints the exception and
\* check_anomalies returns; scrape_data goes on to print and return data
AfterCheck(err) == "done"

check_anomalies(p) ==
    /\ pc[p] = "saved"
    /\ \E historical_hashrates \in HistoryQuery(pool_summary, p) :
       \E result \in {TryBlock(OfflineRule(data[p]),
                               HashrateRule(data[p], historical_hashrates))} :
          /\ anomaly_log' = anomaly_log \o
                 [i \in 1..Len(result.anomalies) |->
                     AnomalyRow(sqlite_sequence["anomaly_log"] + i, now, p,
                                result.anomalies[i])]
          /\ sqlite_sequence' =
                 [sqlite_sequence EXCEPT !["anomaly_log"] = @ + Len(result.anomalies)]
          /\ chk' = [pool |-> p, cycle |-> cycle[p], err |-> result.err,
                     offline |-> get(data[p].summary, "offline_workers", <<"0">>),
                     history |-> Shown(PoolRows(pool_summary, p)),
                     queried |-> result.queried,
                     fetched |-> IF result.queried THEN Shown(historical_hashrates)
                                 ELSE <<>>,
                     current_hr |-> CurrentHashrate(data[p]),
                     ownrow |-> lastrowid[p],
                     appended |-> result.anomalies]
          /\ pc' = [pc EXCEPT ![p] = AfterCheck(result.err)]
    /\ data' = [data EXCEPT ![p] = NoData]
    /\ UNCHANGED <<pool_metadata, pool_summary, worker_status, daily_earnings, now,
                   cycle, cycles, ops, lastrowid, write_failed, sent, last_saved, norm,
                   page>>

\* ------------------------------------------------------------- PoolManager
\* add_pool: INSERT; a row of that pool_id raises IntegrityError, which is caught
add_pool(p) ==
    /\ ops < MaxOps
    /\ ops' = ops + 1
    /\ pool_metadata' =
           IF \E r \in pool_metadata : r.pool_id = p THEN pool_metadata
           ELSE pool_metadata \cup {MetadataRow(p, "added", now)}
    /\ UNCHANGED <<pool_summary, worker_status, daily_earnings, anomaly_log,
                   sqlite_sequence, now, pc, data, cycle, cycles, lastrowid, write_failed,
                   chk, sent, last_saved, norm, page>>

\* the keyword arguments of update_pool: update --name, activate, deactivate, none
UpdateArgs == {[pool_name |-> "renamed"], [active |-> 1], [active |-> 0], <<>>}

UpdatedRow(r, kwargs) ==
    [r EXCEPT !.pool_name = get(kwargs, "pool_name", @),
              !.active = get(kwargs, "active", @)]

\* update_pool: UPDATE pool_metadata SET ..., updated_at = CURRENT_TIMESTAMP
update_pool(p, kwargs) ==
    /\ ops < MaxOps
    /\ ops' = ops + 1
    /\ pool_metadata' =
           IF DOMAIN kwargs = {} THEN pool_metadata
           ELSE {IF r.pool_id = p THEN UpdatedRow(r, kwargs) ELSE r : r \in pool_metadata}
    /\ UNCHANGED <<pool_summary, worker_status, daily_earnings, anomaly_log,
                   sqlite_sequence, now, pc, data, cycle, cycles, lastrowid, write_failed,
                   chk, sent, last_saved, norm, page>>

Without(rows, p) == SelectSeq(rows, LAMBDA r : r.pool_id # p)

\* cursor.rowcount after the five DELETEs: the rows the last one, on anomaly_log, deleted
DeleteRowcount(p) == Len(anomaly_log) - Len(Without(anomaly_log, p))

\* line 189: the transaction is committed unless that rowcount is 0
DeleteCommits(p) == DeleteRowcount(p) # 0

\* delete_pool(pool_id, confirm): without confirmation, and with any answer
\* but DELETE, nothing is executed
delete_pool(p, confirmed) ==
    /\ ops < MaxOps
    /\ ops' = ops + 1
    /\ IF confirmed /\ DeleteCommits(p)
       THEN /\ pool_metadata' = {r \in pool_metadata : r.pool_id # p}
            /\ pool_summary' = Without(pool_summary, p)
            /\ worker_status' = Without(worker_status, p)
            /\ daily_earnings' = Without(daily_earnings, p)
            /\ anomaly_log' = Without(anomaly_log, p)
       ELSE UNCHANGED <<pool_metadata, pool_summary, worker_status, daily_earnings,
                        anomaly_log>>
    /\ UNCHANGED <<sqlite_sequence, now, pc, data, cycle, cycles, lastrowid, write_failed,
                   chk, sent, last_saved, norm, page>>

\* ------------------------------------------ SupabaseUploader.upload_latest
\* str.replace('BTC', '')
RECURSIVE RemoveBTC(_)
RemoveBTC(s) ==
    IF Len(s) < 3 THEN s
    ELSE IF SubSeq(s, 1, 3) = <<"B", "T", "C">> THEN RemoveBTC(SubSeq(s, 4, Len(s)))
    ELSE <<s[1]>> \o RemoveBTC(Tail(s))

\* str.strip()
RECURSIVE strip(_)
strip(s) ==
    IF s # <<>> /\ s[1] \in SpaceChars THEN strip(Tail(s))
    ELSE IF s # <<>> /\ s[Len(s)] \in SpaceChars THEN strip(SubSeq(s, 1, Len(s) - 1))
    ELSE s

\* float(text.replace('BTC', '').strip())
CurrencyValue(text) == float(strip(RemoveBTC(text)))

\* int(x) of a result that is not negative: truncation
Truncated(x) == IF x.err # "" THEN x ELSE Ok(x.val[1] \div x.val[2])

\* SupabaseUploader.parse_hashrate: the search and the table of
\* parse_hashrate_to_ths, then int(value * conversion); ValueError when
\* float() raises
parse_hashrate(hashrate_str) == Truncated(parse_hashrate_to_ths(hashrate_str))

\* SELECT * FROM pool_summary ORDER BY timestamp DESC LIMIT 1: the possible
\* results, each a sequence of at most one row
LatestSummary(rows) == {Limit(o, 1) : o \in OrderByTimestampDesc(rows)}

\* SELECT * FROM worker_status WHERE timestamp = (SELECT MAX(timestamp) FROM
\* worker_status), in rowid order
LatestWorkers(rows) ==
    SelectSeq(rows, LAMBDA r : \A i \in 1..Len(rows) : rows[i].timestamp <= r.timestamp)

\* comparison of TEXT values: character by character, a prefix first
RECURSIVE TextLessEq(_, _)
TextLessEq(a, b) ==
    IF a = <<>> THEN TRUE
    ELSE IF b = <<>> THEN FALSE
    ELSE IF a[1] = b[1] THEN TextLessEq(Tail(a), Tail(b))
    ELSE CharCode(a[1]) < CharCode(b[1])

\* the rows but the i-th
Drop(rows, i) == SubSeq(rows, 1, i - 1) \o SubSeq(rows, i + 1, Len(rows))

\* the rows whose date no other row's date exceeds as TEXT
Greatest(rows) ==
    {i \in 1..Len(rows) : \A j \in 1..Len(rows) : TextLessEq(rows[j].date, rows[i].date)}

\* ORDER BY date DESC: every order of the rows that is descending in the TEXT
\* of the date (SQL leaves the order of rows of equal date open)
RECURSIVE OrderByDateDesc(_)
OrderByDateDesc(rows) ==
    IF rows = <<>> THEN {<<>>}
    ELSE UNION {{<<rows[i]>> \o rest : rest \in OrderByDateDesc(Drop(rows, i))} :
                  i \in Greatest(rows)}

\* SELECT * FROM daily_earnings ORDER BY date DESC LIMIT 30: the possible results
RecentEarnings(rows) == {Limit(o, EarningsLimit) : o \in OrderByDateDesc(rows)}

\* str.lower() of a worker status
lower(status) ==
    CASE status = "ONLINE" -> "online" [] status = "OFFLINE" -> "offline"
      [] OTHER -> status

\* the balance and earn_24_hours entries: left out when the column is empty
\* or its text does not parse
AccountData(summary) ==
    LET Entry(text) == IF text = <<>> THEN <<>>
                       ELSE IF CurrencyValue(text).err # "" THEN <<>>
                       ELSE <<CurrencyValue(text).val>>
    IN  [balance |-> Entry(summary.balance), earn_24_hours |-> Entry(summary.last_income)]

\* the dict of lines 116-126, given the results of its calls: Ok(record), or
\* the first exception raised
HashrateRecord(current, daily, online, offline) ==
    IF current.err # "" THEN current
    ELSE IF daily.err # "" THEN daily
    ELSE IF online.err # "" THEN online
    ELSE IF offline.err # "" THEN offline
    ELSE Ok([hashrate_10m |-> current.val, hashrate_1h |-> current.val,
             hashrate_1d |-> daily.val, worker_count |-> online.val + offline.val,
             active_workers |-> online.val])

HashrateData(summary) ==
    HashrateRecord(parse_hashrate(summary.current_hashrate),
                   parse_hashrate(summary.avg_hashrate_24h),
                   int(summary.online_workers), int(summary.offline_workers))

\* a device identity with its spaces kept
KeepSpaces(s) == s

\* str.replace(' ', '_')
ReplaceSpaces(s) == [k \in 1..Len(s) |-> IF s[k] = " " THEN "_" ELSE s[k]]

\* f"KZ_{self.account_name}_{worker['worker_name']}".replace(' ', '_')
DeviceId(account, worker_name) ==
    ReplaceSpaces(<<"K", "Z", "_">> \o AccountName(account) \o <<"_">> \o worker_name)

DeviceData(account, worker) ==
    [device_id |-> DeviceId(account, worker.worker_name),
     account_name |-> account, worker_name |-> worker.worker_name,
     serial_number |-> worker.worker_name, status |-> lower(worker.status)]

\* batches of full size only
FullBatches(records, size) ==
    [k \in 1..(Len(records) \div size) |-> SubSeq(records, size * (k - 1) + 1, size * k)]

\* range(0, len(device_records), 50): consecutive batches
Batches(records, size) ==
    [k \in 1..((Len(records) + size - 1) \div size) |->
        SubSeq(records, size * (k - 1) + 1,
               IF size * k < Len(records) THEN size * k ELSE Len(records))]

\* income_records: the rows whose income text parses, in fetch order
RECURSIVE IncomeRecords(_, _)
IncomeRecords(account, earnings) ==
    IF earnings = <<>> THEN <<>>
    ELSE LET amount == CurrencyValue(earnings[1].total_income)
         IN  (IF amount.err # "" THEN <<>>
              ELSE <<[account_name |-> account, date |-> earnings[1].date,
                      btc_amount |-> amount.val]>>)
             \o IncomeRecords(account, Tail(earnings))

\* an alert that is 'high' from five offline workers on
AlertDataFromFive(account, summary) ==
    IF int(summary.offline_workers).val > 0
    THEN <<[account_name |-> account, alert_type |-> "offline_workers",
            severity |-> IF int(summary.offline_workers).val >= HighAlertCount
                         THEN "high" ELSE "medium",
            message |-> summary.offline_workers]>>
    ELSE <<>>

\* lines 189-199
AlertData(account, summary) ==
    IF int(summary.offline_workers).val > 0
    THEN <<[account_name |-> account, alert_type |-> "offline_workers",
            severity |-> IF int(summary.offline_workers).val > HighAlertCount
                         THEN "high" ELSE "medium",
            message |-> summary.offline_workers]>>
    ELSE <<>>

\* what the call hands to the remote store once the summary is read
Payload(account, latest, hashrate, workers, earnings) ==
    IF hashrate.err # ""
    THEN [NoUpload EXCEPT !.account = account, !.result = hashrate.err,
                          !.summary = latest, !.account_data = AccountData(latest[1])]
    ELSE [account |-> account, result |-> "True",
          summary |-> latest, workers |-> workers, earnings |-> earnings,
          account_data |-> AccountData(latest[1]),
          hashrate |-> hashrate.val,
          devices |-> Batches([i \in 1..Len(workers) |-> DeviceData(account, workers[i])],
                              BatchSize),
          income |-> IncomeRecords(account, earnings),
          alert |-> AlertData(account, latest[1]),
          calls |-> <<>>]

\* requests.post inside upsert and insert_batch: a response of status 200 or
\* 201, a response of another status, or an exception
Responses == {"ok", "status", "exception"}

\* upsert, lines 37-45: what it returns and what it logs
upsert(table, response) ==
    [table |-> table, response |-> response, returned |-> response = "ok",
     logged |-> IF response = "exception" THEN <<"error">> ELSE <<>>]

\* insert_batch, lines 47-58
insert_batch(table, response) ==
    [table |-> table, response |-> response, returned |-> response = "ok",
     logged |-> IF response = "ok" THEN <<"success">> ELSE <<"error">>]

\* logger.info of upload_latest after a call, whatever the call returned
ThenInfo(call) == [call EXCEPT !.logged = @ \o <<"success">>]

\* the remote calls of an upload in their order, each with the method that
\* makes it and whether a logger.info of upload_latest follows it
RemoteCalls(payload) ==
    IF payload.summary = <<>> THEN <<>>
    ELSE <<[table |-> "accounts", method |-> "upsert", info |-> TRUE]>>
         \o (IF payload.result # "True" THEN <<>>
             ELSE <<[table |-> "hashrates", method |-> "upsert", info |-> TRUE]>>
                  \o [b \in 1..Len(payload.devices) |->
                         [table |-> "devices", method |-> "insert_batch", info |-> FALSE]]
                  \o (IF payload.income = <<>> THEN <<>>
                      ELSE <<[table |-> "income_tracking", method |-> "insert_batch",
                              info |-> FALSE]>>)
                  \o (IF payload.alert = <<>> THEN <<>>
                      ELSE <<[table |-> "alerts", method |-> "upsert", info |-> TRUE]>>))

Called(request, response) ==
    IF request.method = "insert_batch" THEN insert_batch(request.table, response)
    ELSE IF request.info THEN ThenInfo(upsert(request.table, response))
    ELSE upsert(request.table, response)

\* an upload that marks the anomaly records of the store resolved once it has
\* read them: a Synchronizer that writes to a local table
upload_and_resolve(account, responses) ==
    /\ \E latest \in LatestSummary(pool_summary) :
       \E earnings \in RecentEarnings(daily_earnings) :
         IF latest = <<>>
         THEN sent' = [NoUpload EXCEPT !.account = account, !.result = "False"]
         ELSE \E payload \in {Payload(account, latest, HashrateData(latest[1]),
                                      Limit(LatestWorkers(worker_status), DeviceCap),
                                      earnings)} :
              \E answers \in [1..Len(RemoteCalls(payload)) -> responses] :
                  sent' = [payload EXCEPT !.calls =
                              [i \in 1..Len(RemoteCalls(payload)) |->
                                  Called(RemoteCalls(payload)[i], answers[i])]]
    /\ anomaly_log' = [i \in 1..Len(anomaly_log) |-> [anomaly_log[i] EXCEPT !.resolved = 1]]
    /\ UNCHANGED <<pool_metadata, pool_summary, worker_status, daily_earnings,
                   sqlite_sequence, now, pc, data, cycle, cycles, ops, lastrowid,
                   write_failed, chk, last_saved, norm, page>>

\* upload_latest of the uploader of one account; sent records the rows read,
\* the payload of each remote call made, and what each call returned and logged.
\* responses: what the remote store may answer
upload_latest(account, responses) ==
    /\ \E latest \in LatestSummary(pool_summary) :
       \E earnings \in RecentEarnings(daily_earnings) :
         IF latest = <<>>
         THEN sent' = [NoUpload EXCEPT !.account = account, !.result = "False"]
         ELSE \E payload \in {Payload(account, latest, HashrateData(latest[1]),
                                      Limit(LatestWorkers(worker_status), DeviceCap),
                                      earnings)} :
              \E answers \in [1..Len(RemoteCalls(payload)) -> responses] :
                  sent' = [payload EXCEPT !.calls =
                              [i \in 1..Len(RemoteCalls(payload)) |->
                                  Called(RemoteCalls(payload)[i], answers[i])]]
    /\ UNCHANGED <<tables, now, pc, data, cycle, cycles, ops, lastrowid, write_failed, chk,
                   last_saved, norm, page>>

\* ------------------------------------- the Extractor: page.evaluate, lines 196-216
\* A page is the sequence of the lines of document.body.innerText, each a
\* sequence of characters.  The Cyrillic labels of the code are written in
\* Latin transliteration, character for character different from the English
\* ones as the originals are.
LabelCurrentRu ==
    <<"T", "e", "k", "u", "s", "h", "c", "h", "i", "y", " ", "k", "h", "e", "s", "h",
      "r", "e", "y", "t">>
LabelCurrentEn ==
    <<"C", "u", "r", "r", "e", "n", "t", " ", "h", "a", "s", "h", "r", "a", "t", "e">>
LabelAverageRu ==
    <<"S", "r", "e", "d", "n", "i", "y", " ", "k", "h", "e", "s", "h", "r", "e", "y",
      "t", " ", "z", "a", " ", "2", "4", "c", "h">>
LabelOnlineRu ==
    <<"O", "n", "l", "a", "y", "n", " ", "v", "o", "r", "k", "e", "r", "y">>
LabelOfflineRu ==
    <<"O", "f", "f", "l", "a", "y", "n", " ", "v", "o", "r", "k", "e", "r", "y">>
LabelBalanceRu ==
    <<"B", "a", "l", "a", "n", "s">>
LabelIncomeRu ==
    <<"P", "o", "s", "l", "e", "d", "n", "i", "y", " ", "d", "o", "k", "h", "o", "d">>

\* the English labels that a page may show and the code does not look for
LabelOnlineEn ==
    <<"O", "n", "l", "i", "n", "e", " ", "w", "o", "r", "k", "e", "r", "s">>
LabelOfflineEn ==
    <<"O", "f", "f", "l", "i", "n", "e", " ", "w", "o", "r", "k", "e", "r", "s">>

\* String.prototype.includes
includes(line, phrase) ==
    \E k \in 1..(Len(line) - Len(phrase) + 1) :
        SubSeq(line, k, k + Len(phrase) - 1) = phrase

\* the branch of the if / else-if chain that a trimmed line takes, "" for none;
\* balance: the following line exists and includes 'BTC'
BranchOf(line, balance) ==
    IF includes(line, LabelCurrentRu) \/ includes(line, LabelCurrentEn)
    THEN "current_hashrate"
    ELSE IF includes(line, LabelAverageRu) THEN "avg_hashrate_24h"
    ELSE IF includes(line, LabelOnlineRu) THEN "online_workers"
    ELSE IF includes(line, LabelOfflineRu) THEN "offline_workers"
    ELSE IF line = LabelBalanceRu /\ balance THEN "balance"
    ELSE IF includes(line, LabelIncomeRu) THEN "last_income"
    ELSE ""

Branch(lines, i) ==
    BranchOf(strip(lines[i]),
             i + 1 <= Len(lines) /\ includes(lines[i + 1], <<"B", "T", "C">>))

SummaryKeys == {"current_hashrate", "avg_hashrate_24h", "online_workers",
                "offline_workers", "balance", "last_income"}

\* the lines whose branch assigns key: the label lines that have a next line
Assigning(lines, key) ==
    {i \in 1..(Len(lines) - 1) : Branch(lines, i) = key}

\* result.summary after the loop: each key holds the trimmed line after the
\* last label line that assigned it
ExtractSummary(lines) ==
    IF \A key \in SummaryKeys : Assigning(lines, key) = {} THEN <<>>
    ELSE [key \in {k \in SummaryKeys : Assigning(lines, k) # {}} |->
             strip(lines[1 + CHOOSE i \in Assigning(lines, key) :
                                 \A j \in Assigning(lines, key) : j <= i])]

\* what page.evaluate returns for a page without tables
Evaluate(lines) == Data(ExtractSummary(lines), <<>>, <<>>)

Line42 ==
    <<"4", "2">>
Line7 ==
    <<"7">>
Line0 ==
    <<"0">>
LinePadded7 ==
    <<" ", " ", "7", " ">>

\* the pages of SpecExtract
ScenarioPage == <<LabelOnlineEn, Line42, LabelOfflineEn, Line7>>
LocalizedPage == <<LabelCurrentRu, Str100T, LabelOnlineRu, Line42, LabelOfflineRu,
                   LinePadded7, LabelBalanceRu, Btc01, LabelIncomeRu, Btc02>>
Pages ==
    { ScenarioPage,
      LocalizedPage,
      <<LabelCurrentEn, Str70T, LabelAverageRu, Str100T, LabelOfflineRu, Line0>>,
      <<LabelCurrentEn, Str100T, LabelCurrentRu, Str70T, LabelOfflineRu>>,
      <<LabelBalanceRu, Line42, LabelOnlineRu, Line42>>,
      <<LabelOfflineRu, LabelOnlineRu, Line7>>,
      <<>> }

\* ------------------------------- the Extractor: the worker table, lines 218-243
\* A table is its header text and its tbody rows, each row the sequence of the
\* texts of its cells.
LabelWorkersRu == <<"V", "o", "r", "k", "e", "r", "y">>
LabelStatusRu == <<"S", "t", "a", "t", "u", "s">>
StatusOnline == <<"O", "N", "L", "I", "N", "E">>
StatusOffline == <<"O", "F", "F", "L", "I", "N", "E">>

\* the characters of a text as one string
RECURSIVE Join(_)
Join(chars) == IF chars = <<>> THEN "" ELSE chars[1] \o Join(Tail(chars))

\* table.innerText.includes(phrase): the phrase is in the header or in a cell
TableIncludes(table, phrase) ==
    \/ includes(table.header, phrase)
    \/ \E i \in 1..Len(table.rows) : \E j \in 1..Len(table.rows[i]) :
           includes(table.rows[i][j], phrase)

\* lines 220-224: the table has rows and is taken for the worker table
IsWorkerTable(table) ==
    /\ Len(table.rows) > 0
    /\ \/ includes(table.header, LabelWorkersRu)
       \/ includes(table.header, LabelStatusRu)
       \/ TableIncludes(table, StatusOnline)
       \/ TableIncludes(table, StatusOffline)

\* cells[k]?.innerText.trim() || '' (k counted from 1)
Cell(cells, k) == IF k <= Len(cells) THEN strip(cells[k]) ELSE <<>>

\* lines 229-236, the fields that are persisted
WorkerOf(cells) == Worker(Cell(cells, 1), Join(Cell(cells, 2)))

\* a filter that looks at the name alone
AcceptedWithAnyStatus(worker) == worker.name # <<>>

\* line 238: worker.name && (worker.status === 'ONLINE' || worker.status === 'OFFLINE')
Accepted(worker) ==
    /\ worker.name # <<>>
    /\ worker.status = "ONLINE" \/ worker.status = "OFFLINE"

\* line 228: the rows of at least 5 cells
Candidates(rows) == SelectSeq(rows, LAMBDA cells : Len(cells) >= CellsNeeded)

ExtractWorkers(table) ==
    IF IsWorkerTable(table)
    THEN SelectSeq([i \in 1..Len(Candidates(table.rows)) |->
                       WorkerOf(Candidates(table.rows)[i])], Accepted)
    ELSE <<>>

\* what page.evaluate returns for a page with one table that is not an
\* earnings table
EvaluateTable(pg) == Data(ExtractSummary(pg.lines), ExtractWorkers(pg), <<>>)

\* the rows of SpecWorkers: well-formed rows of 6 and 5 cells, a row of
\* another status, a row of 4 cells, a row without a name
RowOnline == <<Rig(1), <<" ">> \o StatusOnline \o <<" ">>, Str100T, Str100T, Str100T, Date1Feb>>
RowOffline == <<Rig(2), StatusOffline, Str70T, Str70T, Str70T>>
RowDegraded ==
    <<Rig(3), <<"D", "E", "G", "R", "A", "D", "E", "D">>, Str100T, Str100T, Str100T, Date1Feb>>
RowShort == <<Rig(4), StatusOnline, Str100T, Str100T>>
RowNoName == <<<<" ">>, StatusOnline, Str100T, Str100T, Str100T>>
RowShapes == {RowOnline, RowOffline, RowDegraded, RowShort, RowNoName}

WorkerPages ==
    {[lines |-> LocalizedPage, header |-> header, rows |-> rows] :
        header \in {LabelStatusRu, <<"N", "a", "m", "e">>},
        rows \in UNION {[1..n -> RowShapes] : n \in 0..MaxTableRows}}

\* ------------------------------------------------- the two normalizers alone
\* the numeric tokens, the spacing and the units of the strings normalized
NormValues == { <<"5">>, <<"1", "0", "0">>, <<"0", ".", "5">>, <<"1", ".", "5">>,
                <<"0", ".", "0", "5">>, <<"2", ".">>, <<"1", ".", "2", ".", "3">>,
                <<".">>, <<>> }
NormSpaces == { <<>>, <<" ">> }
NormUnits == { <<"P", "H", "/", "s">>, <<"T", "H", "/", "s">>, <<"G", "H", "/", "s">>,
               <<"M", "H", "/", "s">>, <<"H", "/", "s">>, <<"K", "H", "/", "s">>,
               <<"E", "H", "/", "s">>, <<>> }

\* parse_hashrate_to_ths and parse_hashrate applied to the string value + space + unit
normalize(value, space, unit) ==
    /\ norm' = [value |-> value, space |-> space, unit |-> unit,
                text |-> value \o space \o unit,
                ths |-> parse_hashrate_to_ths(value \o space \o unit),
                sample |-> parse_hashrate(value \o space \o unit)]
    /\ UNCHANGED <<tables, now, pc, data, cycle, cycles, ops, lastrowid, write_failed, chk,
                   sent, last_saved, page>>

\* ------------------------------- pipelines of several processes on one store
\* Each pipeline opens its own connection to the one store file (lines 288,
\* 351); the code takes no lock of its own.  SQLite gives the write lock of
\* the file to one connection from its first INSERT to its commit; a second
\* connection that wants to write waits in the busy handler, and its statement
\* raises OperationalError (database is locked) when the timeout has passed.
\* A pipeline whose save has run its first INSERT and not yet committed is at
\* "writing".
Writers == {q \in Pools : pc[q] = "writing"}
LockedByOther(p) == Writers \ {p} # {}

\* __init__ of a scraper while no connection holds the write lock
setup_unlocked(p) ==
    /\ Writers = {}
    /\ setup_database(p)

\* save_to_database up to its first INSERT, which takes the write lock
begin_save(p) ==
    /\ pc[p] = "extracted"
    /\ Writers = {}
    /\ pc' = [pc EXCEPT ![p] = "writing"]
    /\ UNCHANGED <<tables, now, data, cycle, cycles, ops, lastrowid, write_failed, chk,
                   sent, last_saved, norm, page>>

\* the rest of save_to_database: the remaining INSERTs and conn.commit()
commit_save(p) ==
    /\ pc[p] = "writing"
    /\ \E db \in {SaveVisible(Db, now, p, data[p],
                              SaveStatements(data[p], [i \in 1..Len(data[p].workers) |-> 0]),
                              0)} :
          /\ pool_summary' = db.pool_summary
          /\ worker_status' = db.worker_status
          /\ daily_earnings' = db.daily_earnings
          /\ sqlite_sequence' = db.sqlite_sequence
    /\ pc' = [pc EXCEPT ![p] = AfterSave(0)]
    /\ lastrowid' = [lastrowid EXCEPT ![p] =
           IF DOMAIN data[p].summary # {} THEN NextId(Db, "pool_summary") ELSE 0]
    /\ last_saved' = Remember(last_saved, p, data[p].daily_earnings,
                              Len(data[p].daily_earnings))
    /\ UNCHANGED <<pool_metadata, anomaly_log, now, data, cycle, cycles, ops, write_failed,
                   chk, sent, norm, page>>

\* save_to_database whose first INSERT finds the write lock held for longer
\* than the timeout: OperationalError is raised, printed and raised again
\* (lines 344-346)
busy_save(p) ==
    /\ pc[p] = "extracted"
    /\ LockedByOther(p)
    /\ SaveStatements(data[p], [i \in 1..Len(data[p].workers) |-> 0]) # <<>>
    /\ now' = now + BusyTimeout
    /\ write_failed' = [write_failed EXCEPT ![p] = TRUE]
    /\ pc' = [pc EXCEPT ![p] = AfterSave(1)]
    /\ data' = [data EXCEPT ![p] = NoData]
    /\ UNCHANGED <<tables, cycle, cycles, ops, lastrowid, chk, sent, last_saved, norm, page>>

\* the records that check_anomalies of pool p would insert
ToInsert(p) ==
    {TryBlock(OfflineRule(data[p]), HashrateRule(data[p], historical_hashrates)).anomalies :
        historical_hashrates \in HistoryQuery(pool_summary, p)}

\* check_anomalies that finds the write lock free, or has nothing to insert:
\* its SELECT reads past the lock, and its INSERTs and commit are one short
\* transaction
check_unlocked(p) ==
    /\ ~LockedByOther(p) \/ ToInsert(p) = {<<>>}
    /\ check_anomalies(p)

\* check_anomalies whose first INSERT finds the write lock held for longer
\* than the timeout: OperationalError is raised inside the try block, printed
\* and swallowed (lines 399-400); the records are not written
busy_check(p) ==
    /\ pc[p] = "saved"
    /\ LockedByOther(p)
    /\ \E anomalies \in ToInsert(p) \ {<<>>} :
          chk' = [pool |-> p, cycle |-> cycle[p], err |-> OperationalError,
                  offline |-> get(data[p].summary, "offline_workers", <<"0">>),
                  history |-> Shown(PoolRows(pool_summary, p)),
                  queried |-> TRUE, fetched |-> <<>>,
                  current_hr |-> CurrentHashrate(data[p]),
                  ownrow |-> lastrowid[p],
                  appended |-> <<>>]
    /\ now' = now + BusyTimeout
    /\ pc' = [pc EXCEPT ![p] = AfterCheck(OperationalError)]
    /\ data' = [data EXCEPT ![p] = NoData]
    /\ UNCHANGED <<tables, cycle, cycles, ops, lastrowid, write_failed, sent, last_saved,
                   norm, page>>

\* ------------------------------------------------------------------- main
\* the pools of pools_config.json, all active, in the order of the file
PoolsConfig == <<"p1", "p2">>

\* the summaries that the pages of an invocation may hold
MainInputs == DetectInputs \cup FrameInputs \cup StoreInputs

\* lines 441-448: the loop reaches pool p when scrape_data has returned for
\* every pool before it; an exception of an earlier pool has left the loop
\* (lines 456-458) and the invocation
main_next(p) ==
    /\ pc[p] = "none"
    /\ \E i \in 1..Len(PoolsConfig) :
          /\ PoolsConfig[i] = p
          /\ \A j \in 1..(i - 1) : pc[PoolsConfig[j]] = "done"
    /\ setup_database(p)

\* scrape_data whose page cannot be retrieved: page.goto raises (line 191),
\* the exception is printed and raised again (lines 281-283)
scrape_raises(p, max) ==
    /\ pc[p] = "ready"
    /\ cycles < max
    /\ cycles' = cycles + 1
    /\ cycle' = [cycle EXCEPT ![p] = cycles + 1]
    /\ now' = now + 1
    /\ pc' = [pc EXCEPT ![p] = "failed"]
    /\ UNCHANGED <<tables, data, ops, lastrowid, write_failed, chk, sent, last_saved, norm,
                   page>>

\* ---------------------------------------------------------- specifications
\* scrapers and the pool manager on one store
Next ==
    \/ \E p \in Pools : setup_database(p)
    \/ \E p \in Pools : save_to_database(p, 0, TRUE)
    \/ \E p \in Pools : check_anomalies(p)
    \/ \E in \in StoreInputs : scrape_data(in[1], NoPage, in[2], MaxCycles)
    \/ \E p \in Pools : add_pool(p)
    \/ \E p \in Pools, kwargs \in UpdateArgs : update_pool(p, kwargs)
    \/ \E p \in Pools, confirmed \in BOOLEAN : delete_pool(p, confirmed)

Spec == Init /\ [][Next]_vars

\* scrape cycles over the summaries that drive the anomaly rules, on a store
\* whose writes succeed
NextDetect ==
    \/ \E p \in Pools : setup_database(p)
    \/ \E p \in Pools : save_to_database(p, 0, FALSE)
    \/ \E p \in Pools : check_anomalies(p)
    \/ \E in \in DetectInputs : scrape_data(in[1], NoPage, in[2], MaxDetectCycles)

SpecDetect == Init /\ [][NextDetect]_vars

\* scrape cycles and uploads on one store; the clock may advance inside a save
NextSync ==
    \/ \E p \in Pools : setup_database(p)
    \/ \E p \in Pools : save_to_database(p, MaxDrift, FALSE)
    \/ \E p \in Pools : check_anomalies(p)
    \/ \E in \in SyncInputs : scrape_data(in[1], NoPage, in[2], MaxCycles)
    \/ \E account \in Pools : upload_latest(account, {"ok"})

SpecSync == Init /\ [][NextSync]_vars

\* the normalizers applied to strings of every shape
NextNormalize ==
    \E value \in NormValues, space \in NormSpaces, unit \in NormUnits :
        normalize(value, space, unit)

SpecNormalize == Init /\ [][NextNormalize]_vars

\* scrape cycles of one pool over pages of text
NextExtract ==
    \/ setup_database("p1")
    \/ save_to_database("p1", 0, FALSE)
    \/ check_anomalies("p1")
    \/ \E lines \in Pages : scrape_data("p1", lines, Evaluate(lines), MaxExtractCycles)

SpecExtract == Init /\ [][NextExtract]_vars

\* scrape cycles that fill the earnings table past the limit of the income
\* query, and uploads
NextIncome ==
    \/ \E p \in Pools : setup_database(p)
    \/ \E p \in Pools : save_to_database(p, 0, FALSE)
    \/ \E p \in Pools : check_anomalies(p)
    \/ \E in \in IncomeInputs : scrape_data(in[1], NoPage, in[2], MaxIncomeCycles)
    \/ \E account \in Pools : upload_latest(account, {"ok"})

SpecIncome == Init /\ [][NextIncome]_vars

\* a scrape cycle over a worker table of up to 201 workers, and uploads for the
\* two accounts
NextDevices ==
    \/ \E p \in Pools : setup_database(p)
    \/ \E p \in Pools : save_to_database(p, 0, FALSE)
    \/ \E p \in Pools : check_anomalies(p)
    \/ \E in \in DeviceInputs : scrape_data(in[1], NoPage, in[2], MaxDeviceCycles)
    \/ \E account \in Pools : upload_latest(account, {"ok"})

SpecDevices == Init /\ [][NextDevices]_vars

\* a scrape cycle of pool p1 and uploads whose remote calls may fail
NextRemote ==
    \/ setup_database("p1")
    \/ save_to_database("p1", 0, FALSE)
    \/ check_anomalies("p1")
    \/ \E in \in RemoteInputs : scrape_data(in[1], NoPage, in[2], MaxRemoteCycles)
    \/ \E account \in Pools : upload_latest(account, Responses)

SpecRemote == Init /\ [][NextRemote]_vars

\* scrape cycles of pool p1 over every offline count of interest, and uploads
NextAlert ==
    \/ setup_database("p1")
    \/ save_to_database("p1", 0, FALSE)
    \/ check_anomalies("p1")
    \/ \E in \in AlertInputs : scrape_data(in[1], NoPage, in[2], MaxAlertCycles)
    \/ \E account \in Pools : upload_latest(account, {"ok"})

SpecAlert == Init /\ [][NextAlert]_vars

\* every operation on the one store: scrapers whose writes may fail, uploads
\* and the pool manager adding pool p2, deactivating pool p1, deleting a pool
NextFrame ==
    \/ \E p \in Pools : setup_database(p)
    \/ \E p \in Pools : save_to_database(p, 0, TRUE)
    \/ \E p \in Pools : check_anomalies(p)
    \/ \E in \in FrameInputs : scrape_data(in[1], NoPage, in[2], MaxFrameCycles)
    \/ \E account \in Pools : upload_latest(account, {"ok"})
    \/ add_pool("p2")
    \/ update_pool("p1", [active |-> 0])
    \/ \E p \in Pools : delete_pool(p, TRUE)

SpecFrame == Init /\ [][NextFrame]_vars

\* the pipelines of two pools, each in a process of its own, on one store file
NextShared ==
    \/ \E p \in Pools : setup_unlocked(p)
    \/ \E in \in FrameInputs : scrape_data(in[1], NoPage, in[2], MaxSharedCycles)
    \/ \E p \in Pools : begin_save(p)
    \/ \E p \in Pools : commit_save(p)
    \/ \E p \in Pools : busy_save(p)
    \/ \E p \in Pools : check_unlocked(p)
    \/ \E p \in Pools : busy_check(p)

SpecShared == Init /\ [][NextShared]_vars

\* one invocation of main over the pools of the configuration file
NextMain ==
    \/ \E p \in Pools : main_next(p)
    \/ \E in \in MainInputs : scrape_data(in[1], NoPage, in[2], MaxMainCycles)
    \/ \E p \in Pools : scrape_raises(p, MaxMainCycles)
    \/ \E p \in Pools : save_to_database(p, 0, TRUE)
    \/ \E p \in Pools : check_anomalies(p)

SpecMain == Init /\ [][NextMain]_vars

\* main is one sequential process, each of whose calls returns or raises: a
\* step that it can take is taken
SpecMainFair == SpecMain /\ WF_vars(NextMain)

\* scrape cycles over pages with a worker table
NextWorkers ==
    \/ setup_database("p1")
    \/ save_to_database("p1", 0, FALSE)
    \/ check_anomalies("p1")
    \/ \E pg \in WorkerPages : scrape_data("p1", pg, EvaluateTable(pg), MaxWorkerCycles)

SpecWorkers == Init /\ [][NextWorkers]_vars

\* ------------------------------------------------ properties of the store
RowsOf(rows, p) == {i \in 1..Len(rows) : rows[i].pool_id = p}

EarningKeys(p, earnings) == {<<p, earnings[j].date>> : j \in 1..Len(earnings)}

EarningKeyUnique ==
    \A i \in 1..Len(daily_earnings) : \A j \in 1..Len(daily_earnings) :
        (/\ daily_earnings[i].pool_id = daily_earnings[j].pool_id
         /\ daily_earnings[i].date = daily_earnings[j].date) => i = j

EarningIsLastSaved ==
    \A i \in 1..Len(daily_earnings) :
        LET r == daily_earnings[i]
        IN  last_saved[<<r.pool_id, r.date>>] =
                [set |-> TRUE, total_income |-> r.total_income, hashrate |-> r.hashrate]

\* a committed save of pool p: each date it holds has a row afterwards, and the
\* rows of every other (pool_id, date) are the rows that were there before
SaveKeepsOtherKeys(p) ==
    (pc[p] = "extracted" /\ pc'[p] = "saved") =>
        LET keys == EarningKeys(p, data[p].daily_earnings)
            Others(rows) == {rows[i] : i \in {j \in 1..Len(rows) :
                                <<rows[j].pool_id, rows[j].date>> \notin keys}}
        IN  /\ Others(daily_earnings') = Others(daily_earnings)
            /\ \A k \in keys : \E i \in 1..Len(daily_earnings') :
                   <<daily_earnings'[i].pool_id, daily_earnings'[i].date>> = k

\* C1: daily_earnings holds at most one row per (pool_id, date); the income and
\* hashrate stored for a (pool_id, date) are those of the most recent committed
\* save that held that date; and a save leaves the rows of every other
\* (pool_id, date) as they were.
EarningsLastWriteWins ==
    /\ [](EarningKeyUnique /\ EarningIsLastSaved)
    /\ [][\A p \in Pools : SaveKeepsOtherKeys(p)]_vars

\* C1 case: the 1/2/2024 row of a first save is still there, after a later save
\* of the same pool has replaced its 15/1/2024 row by the second of two entries
\* of that date
EarningReplaced ==
    /\ ops = 0
    /\ Len(daily_earnings) = 2
    /\ sqlite_sequence["daily_earnings"] = 4
    /\ \E i \in 1..2 : /\ daily_earnings[i].pool_id = "p1"
                       /\ daily_earnings[i].date = Date1Feb
                       /\ daily_earnings[i].total_income = Btc02
                       /\ daily_earnings[i].id = 1
    /\ \E i \in 1..2 : /\ daily_earnings[i].pool_id = "p1"
                       /\ daily_earnings[i].date = Date15Jan
                       /\ daily_earnings[i].total_income = StrNA
                       /\ daily_earnings[i].id = 4

NoRowOf(p) ==
    /\ \A r \in pool_metadata : r.pool_id # p
    /\ RowsOf(pool_summary, p) = {}
    /\ RowsOf(worker_status, p) = {}
    /\ RowsOf(daily_earnings, p) = {}
    /\ RowsOf(anomaly_log, p) = {}

OthersKept(p) ==
    /\ {r \in pool_metadata' : r.pool_id # p} = {r \in pool_metadata : r.pool_id # p}
    /\ Without(pool_summary', p) = Without(pool_summary, p)
    /\ Without(worker_status', p) = Without(worker_status, p)
    /\ Without(daily_earnings', p) = Without(daily_earnings, p)
    /\ Without(anomaly_log', p) = Without(anomaly_log, p)

\* C7: after a confirmed delete_pool(p) no row with that pool_id remains in any
\* of the five tables, whatever rows the pool owned, and the rows of the other
\* pools are unchanged.
DeleteRemovesEveryRow ==
    [][\A p \in Pools : delete_pool(p, TRUE) => (NoRowOf(p)' /\ OthersKept(p))]_vars

\* C8: the writes of one cycle are applied as a unit.  A save in which a write
\* fails leaves the store as it was and raises to the caller of scrape_data;
\* check_anomalies does not run for that cycle.
CycleWritesAreAUnit ==
    /\ [](\A p \in Pools : write_failed[p] =>
              /\ pc[p] \in {"failed", "ready"}
              /\ ~(chk.pool = p /\ chk.cycle = cycle[p]))
    /\ [][\A p \in Pools : (pc[p] = "extracted" /\ write_failed'[p]) =>
              /\ pc'[p] = "failed"
              /\ UNCHANGED <<pool_summary, worker_status, daily_earnings,
                             sqlite_sequence, anomaly_log>>]_vars

\* C8 case: the second cycle of pool p1 failed in its save, after a first
\* cycle whose rows are in the store
SaveFailed ==
    /\ write_failed["p1"]
    /\ pc["p1"] = "failed"
    /\ cycle["p1"] = 2
    /\ chk.pool = "p1" /\ chk.cycle = 1
    /\ RowsOf(pool_summary, "p1") # {}

\* C9: every row of pool_summary, worker_status, daily_earnings and anomaly_log
\* has a pool_id that exists in pool_metadata.
EveryRowReferencesAPool ==
    \A p \in Pools :
        (\/ RowsOf(pool_summary, p) # {}
         \/ RowsOf(worker_status, p) # {}
         \/ RowsOf(daily_earnings, p) # {}
         \/ RowsOf(anomaly_log, p) # {}) => \E r \in pool_metadata : r.pool_id = p

\* ---------------------------------------- properties of anomaly detection
Appended(type) == SelectSeq(chk.appended, LAMBDA a : a.type = type)

\* the rows of the checked pool as they stood at detection time, newest first
\* (the saves of one pool are at least a second apart, so rowid order is
\* timestamp order within a pool), cut to the ten newest
NewestFirst(rows) == [i \in 1..Len(rows) |-> rows[Len(rows) + 1 - i]]
TenNewest == Limit(NewestFirst(chk.history), HistoryLimit)

Normalizes(hashrate_str) == parse_hashrate_to_ths(hashrate_str).err = ""
Normalized(hashrate_str) == parse_hashrate_to_ths(hashrate_str).val

\* the mean of the normalized hashrates of rows[2..]
ReferenceAverage(rows) == QDiv(SumParsed(rows, 2).val, <<Len(rows) - 1, 1>>)

\* C2: for an integer offline_count, an OFFLINE_WORKERS record is appended if
\* and only if offline_count > 0, with severity HIGH when offline_count > 5
\* and MEDIUM when it is 1 to 5.
OfflineRuleAsStated ==
    (chk.cycle # 0 /\ IsIntLiteral(chk.offline)) =>
        LET offline_count == DigitsValue(chk.offline)
            records == Appended("OFFLINE_WORKERS")
        IN  /\ (Len(records) > 0) <=> (offline_count > 0)
            /\ \A i \in 1..Len(records) :
                   records[i].severity =
                       IF offline_count > HighOfflineCount THEN "HIGH" ELSE "MEDIUM"

\* C3: with fewer than 2 Snapshot rows of the pool at detection time, no
\* HASHRATE_DROP record is appended, however low the current hashrate is.
NoDropWithoutHistory ==
    (chk.cycle # 0 /\ Len(chk.history) < 2) => Appended("HASHRATE_DROP") = <<>>

\* C3 case: pool p1 is checked with one row of its own, at 70 TH/s, while the
\* table holds a row of pool p2 at 100 TH/s
OneRowOfOwnPool ==
    /\ chk.pool = "p1"
    /\ chk.err = ""
    /\ Len(chk.history) = 1
    /\ chk.current_hr = Str70T
    /\ \E i \in RowsOf(pool_summary, "p2") :
           /\ pool_summary[i].current_hashrate = Str100T
           /\ pool_summary[i].id < chk.ownrow

\* C4: with at least 2 Snapshot rows of the pool, whose hashrates all
\* normalize, a HASHRATE_DROP record is appended if and only if the current
\* normalized hashrate is strictly less than 0.8 times the mean of the ten
\* newest rows of the pool without the newest one.
DropRuleAsStated ==
    (/\ chk.cycle # 0
     /\ Len(chk.history) >= 2
     /\ Normalizes(chk.current_hr)
     /\ \A i \in 1..Len(TenNewest) : Normalizes(TenNewest[i].current_hashrate)) =>
        ((Appended("HASHRATE_DROP") # <<>>) <=>
             QLess(QMul(Normalized(chk.current_hr), <<DropFactorDen, 1>>),
                   QMul(ReferenceAverage(TenNewest), <<DropFactorNum, 1>>)))

\* C5: a HASHRATE_DROP record carries drop percent =
\* (reference_average - current) / reference_average * 100 and severity HIGH
\* exactly when that is above 30, else MEDIUM; prior rows of 100 and 100 with a
\* current value of 70 give drop percent 30 and MEDIUM; the division is never
\* by zero.
DropSeverityAsStated ==
    /\ chk.err # ZeroDivisionError
    /\ \A i \in 1..Len(Appended("HASHRATE_DROP")) :
           LET record == Appended("HASHRATE_DROP")[i]
               avg == ReferenceAverage(chk.fetched)
               current == Normalized(chk.current_hr)
               percent == Q((avg[1] * current[2] - current[1] * avg[2]) * 100 * avg[2],
                            avg[2] * current[2] * avg[1])
           IN  /\ avg[1] > 0
               /\ record.description.drop_percent = percent
               /\ record.severity =
                      IF percent[1] > HighDropPercent * percent[2] THEN "HIGH" ELSE "MEDIUM"
    /\ (/\ chk.cycle # 0
        /\ Len(chk.fetched) = 3
        /\ chk.current_hr = Str70T
        /\ chk.fetched[2].current_hashrate = Str100T
        /\ chk.fetched[3].current_hashrate = Str100T) =>
           /\ Len(Appended("HASHRATE_DROP")) = 1
           /\ Appended("HASHRATE_DROP")[1].severity = "MEDIUM"
           /\ Appended("HASHRATE_DROP")[1].description.drop_percent = <<HighDropPercent, 1>>

\* C5 case: cycles at 100, 100 and 70 TH/s of one pool; the third is checked
DropOfThirtyPercent ==
    /\ chk.pool = "p1"
    /\ Len(chk.fetched) = 3
    /\ chk.fetched[1].id = chk.ownrow
    /\ chk.current_hr = Str70T
    /\ chk.fetched[2].current_hashrate = Str100T
    /\ chk.fetched[3].current_hashrate = Str100T
    /\ Appended("HASHRATE_DROP") # <<>>

\* C6: in every cycle the newest row that the hashrate-drop rule fetches is the
\* Snapshot row written by this cycle, and carries the hashrate used as current.
NewestFetchedIsOwnRow ==
    (chk.cycle # 0 /\ chk.queried /\ Len(chk.fetched) > 1) =>
        /\ chk.fetched[1].id = chk.ownrow
        /\ parse_hashrate_to_ths(chk.fetched[1].current_hashrate) =
               parse_hashrate_to_ths(chk.current_hr)

\* ------------------------------------------------- properties of the upload
\* C10: the Snapshot, the worker rows and the earning rows that upload_latest
\* reads and sends for an account all belong to the pool of that account.
UploadReadsOwnPool ==
    /\ \A i \in 1..Len(sent.summary) : sent.summary[i].pool_id = sent.account
    /\ \A i \in 1..Len(sent.workers) : sent.workers[i].pool_id = sent.account
    /\ \A i \in 1..Len(sent.earnings) : sent.earnings[i].pool_id = sent.account

\* C12: check_anomalies never propagates an exception: whatever the snapshot
\* and the stored history, a cycle whose save succeeded ends with scrape_data
\* returning (pc = "done"), also when a rule raised.
DetectionNeverPropagates ==
    /\ [](chk.cycle # 0 /\ chk.cycle = cycle[chk.pool] =>
              /\ pc[chk.pool] \in {"done", "ready"}
              /\ ~write_failed[chk.pool])
    /\ [][\A p \in Pools : (pc[p] = "saved" /\ pc'[p] # "saved") =>
              (pc'[p] = "done" /\ chk'.pool = p /\ chk'.cycle = cycle[p])]_vars

\* C12 case: a cycle whose stored history holds a malformed hashrate string
\* has raised ValueError in the drop rule and has returned
DetectionRaisedAndReturned ==
    /\ chk.pool = "p1"
    /\ pc["p1"] = "done"
    /\ chk.err = ValueError
    /\ chk.queried
    /\ \E i \in 1..Len(chk.fetched) : i > 1 /\ ~Normalizes(chk.fetched[i].current_hashrate)

\* ------------------------------------------ properties of the normalizers
\* the table of the specification: P 1000, T 1, G 0.001, M 0.000001, else 1
StatedFactor(unit) ==
    CASE unit = <<"P", "H", "/", "s">> -> <<1000, 1>>
      [] unit = <<"G", "H", "/", "s">> -> <<1, 1000>>
      [] unit = <<"M", "H", "/", "s">> -> <<1, 1000000>>
      [] OTHER -> <<1, 1>>

\* C13: for a numeric value v followed by a unit U H/s with U in {P, T, G, M},
\* parse_hashrate_to_ths gives v times the table's factor for U; for a unit that
\* is not one of these (no prefix, K, E) it gives v times 1.
NormalizationAsStated ==
    (IsFloatLiteral(norm.value) /\ norm.unit # <<>>) =>
        norm.ths = Ok(QMul(float(norm.value).val, StatedFactor(norm.unit)))

\* C14: normalization never raises: whatever the string, parse_hashrate_to_ths
\* and parse_hashrate return a number, 0 when nothing parses.
NormalizationNeverRaises ==
    /\ norm.ths.err = ""
    /\ norm.sample.err = ""
    /\ ~re_search(norm.text).found => (norm.ths = Ok(QZero) /\ norm.sample = Ok(0))

\* ------------------------------------------------- properties of extraction
\* C15: a page with 'Online workers' followed by '42' and 'Offline workers'
\* followed by '7' yields a persisted Snapshot with online_workers = 42 and
\* offline_workers = 7 and exactly one OFFLINE_WORKERS record, of severity
\* HIGH, for that cycle.
EnglishLabelsExtracted ==
    \A p \in Pools :
        (page[p] = ScenarioPage /\ chk.pool = p /\ chk.cycle = cycle[p]) =>
            /\ \E i \in RowsOf(pool_summary, p) :
                   /\ pool_summary[i].id = lastrowid[p]
                   /\ pool_summary[i].online_workers = Line42
                   /\ pool_summary[i].offline_workers = Line7
            /\ Len(Appended("OFFLINE_WORKERS")) = 1
            /\ \A i \in 1..Len(Appended("OFFLINE_WORKERS")) :
                   Appended("OFFLINE_WORKERS")[i].severity = "HIGH"

\* C16: after a committed save with a non-empty summary and n workers, the n
\* worker rows written by the cycle carry the timestamp of the cycle's
\* Snapshot row, and the pool's rows of maximal timestamp are exactly those n.
WrittenWorkers(p) ==
    SubSeq(PoolRows(worker_status, p),
           Len(PoolRows(worker_status, p)) - Len(data[p].workers) + 1,
           Len(PoolRows(worker_status, p)))

SnapshotTime(p) ==
    {pool_summary[i].timestamp : i \in {j \in 1..Len(pool_summary) :
                                           pool_summary[j].id = lastrowid[p]}}

WorkersShareSnapshotTimestamp ==
    \A p \in Pools :
        (pc[p] = "saved" /\ DOMAIN data[p].summary # {}) =>
            /\ \A k \in 1..Len(WrittenWorkers(p)) :
                   SnapshotTime(p) = {WrittenWorkers(p)[k].timestamp}
            /\ LatestWorkers(PoolRows(worker_status, p)) = WrittenWorkers(p)

\* C17: each upload translates the 30 rows of the earnings table that are most
\* recent by calendar date, or all rows when there are fewer, into income
\* entries: one entry per selected row whose income parses, none for a row
\* whose income does not.
RECURSIVE Fields(_)
Fields(date) ==
    IF \A k \in 1..Len(date) : date[k] # "/" THEN <<date>>
    ELSE LET k == CHOOSE i \in 1..Len(date) :
                      date[i] = "/" /\ \A j \in 1..(i - 1) : date[j] # "/"
         IN  <<SubSeq(date, 1, k - 1)>> \o Fields(SubSeq(date, k + 1, Len(date)))

\* year, month, day as one number
Calendar(date) ==
    10000 * DigitsValue(Fields(date)[3]) + 100 * DigitsValue(Fields(date)[2])
    + DigitsValue(Fields(date)[1])

Parses(row) == CurrencyValue(row.total_income).err = ""

MostRecentTranslated(rows, upload) ==
    /\ Len(upload.earnings) = (IF Len(rows) < 30 THEN Len(rows) ELSE 30)
    /\ \A k \in 1..Len(upload.earnings) : \E i \in 1..Len(rows) : rows[i] = upload.earnings[k]
    /\ \A i \in 1..Len(rows) :
           (\A k \in 1..Len(upload.earnings) : upload.earnings[k] # rows[i]) =>
               \A k \in 1..Len(upload.earnings) :
                   Calendar(rows[i].date) <= Calendar(upload.earnings[k].date)
    /\ upload.income =
           [k \in 1..Len(SelectSeq(upload.earnings, Parses)) |->
               [account_name |-> upload.account,
                date |-> SelectSeq(upload.earnings, Parses)[k].date,
                btc_amount |->
                    CurrencyValue(SelectSeq(upload.earnings, Parses)[k].total_income).val]]

IncomeOfMostRecentDates ==
    [][(sent' # sent /\ sent'.result = "True") =>
           MostRecentTranslated(daily_earnings, sent')]_vars

\* C18: an upload that reaches the device step with n current workers sends
\* min(n, 200) device records, the k-th for the k-th current worker in fetch
\* order, in ceil(min(n, 200) / 50) consecutive calls that are full but for the
\* last; with n = 0 it makes no device call.
NewestTimestamp(rows) ==
    CHOOSE t \in {rows[i].timestamp : i \in 1..Len(rows)} :
        \A i \in 1..Len(rows) : rows[i].timestamp <= t

\* the current worker set, in rowid order
CurrentWorkers(rows) ==
    IF rows = <<>> THEN <<>>
    ELSE SelectSeq(rows, LAMBDA r : r.timestamp = NewestTimestamp(rows))

WithinCap(n) == IF n < 200 THEN n ELSE 200

DevicesOfCurrent(current, calls) ==
    /\ Len(calls) = (WithinCap(Len(current)) + 49) \div 50
    /\ \A b \in 1..Len(calls) :
           /\ Len(calls[b]) = (IF 50 * b <= WithinCap(Len(current)) THEN 50
                               ELSE WithinCap(Len(current)) - 50 * (b - 1))
           /\ \A k \in 1..Len(calls[b]) :
                  calls[b][k].worker_name = current[50 * (b - 1) + k].worker_name

RECURSIVE Underscored(_)
Underscored(text) ==
    IF text = <<>> THEN <<>>
    ELSE <<IF Head(text) = " " THEN "_" ELSE Head(text)>> \o Underscored(Tail(text))

DeviceIdentityIsUnderscoredText ==
    \A b \in 1..Len(sent.devices) : \A k \in 1..Len(sent.devices[b]) :
        sent.devices[b][k].device_id =
            Underscored(<<"K", "Z", "_">> \o AccountName(sent.account) \o <<"_">>
                        \o sent.devices[b][k].worker_name)

\* C19 case: worker 'Rig 01' of account 'acct-a' was sent as 'KZ_acct-a_Rig_01'
RigOneOfAcctA ==
    /\ AccountName(sent.account) = <<"a", "c", "c", "t", "-", "a">>
    /\ \E b \in 1..Len(sent.devices) : \E k \in 1..Len(sent.devices[b]) :
           /\ sent.devices[b][k].worker_name = <<"R", "i", "g", " ", "0", "1">>
           /\ sent.devices[b][k].device_id =
                  <<"K", "Z", "_", "a", "c", "c", "t", "-", "a", "_",
                    "R", "i", "g", "_", "0", "1">>

\* C19 as stated: only the spaces of the worker name are replaced
DeviceIdentityKeepsAccountName ==
    \A b \in 1..Len(sent.devices) : \A k \in 1..Len(sent.devices[b]) :
        sent.devices[b][k].device_id =
            <<"K", "Z", "_">> \o AccountName(sent.account) \o <<"_">>
            \o Underscored(sent.devices[b][k].worker_name)

\* C20: the hashrate sample of an upload that finds a Snapshot carries the
\* Normalizer's values of the Snapshot's current_hashrate and avg_hashrate_24h
\* strings, worker_count = online_workers + offline_workers and
\* active_workers = online_workers.
SampleOf(row, sample) ==
    /\ <<sample.hashrate_10m, 1>> = Normalized(row.current_hashrate)
    /\ <<sample.hashrate_1h, 1>> = Normalized(row.current_hashrate)
    /\ <<sample.hashrate_1d, 1>> = Normalized(row.avg_hashrate_24h)
    /\ sample.worker_count =
           DigitsValue(row.online_workers) + DigitsValue(row.offline_workers)
    /\ sample.active_workers = DigitsValue(row.online_workers)

SampleIsNormalized ==
    \A i \in 1..Len(sent.summary) :
        /\ sent.result = "True"
        /\ SampleOf(sent.summary[i], sent.hashrate)

\* C11: the remote calls of an upload are independent: whichever of them fail,
\* each call of the upload is attempted once, and each failed call is reported
\* as failed: it returns False, an error is logged for it and no success is.
ExpectedTables(upload) ==
    <<"accounts", "hashrates">>
    \o [b \in 1..Len(upload.devices) |-> "devices"]
    \o (IF upload.income = <<>> THEN <<>> ELSE <<"income_tracking">>)
    \o (IF upload.alert = <<>> THEN <<>> ELSE <<"alerts">>)

Reported(call) ==
    call.response # "ok" =>
        /\ ~call.returned
        /\ \E i \in 1..Len(call.logged) : call.logged[i] = "error"
        /\ \A i \in 1..Len(call.logged) : call.logged[i] # "success"

FailedCallsAreReported ==
    sent.result = "True" =>
        /\ [i \in 1..Len(sent.calls) |-> sent.calls[i].table] = ExpectedTables(sent)
        /\ \A i \in 1..Len(sent.calls) : Reported(sent.calls[i])

\* C21: an upload that reaches its alert step sends an alert for the Snapshot's
\* offline count n if and only if the local offline rule fires for n, with the
\* severity of the same level (high for HIGH, medium for MEDIUM); for n = 0 no
\* alert call is made.  The local rule is taken both as the rule applied to n
\* and as what the cycle that wrote the Snapshot appended to anomaly_log.
LocalLevel(severity) == IF severity = "HIGH" THEN "high" ELSE "medium"

SameAlert(local, alert) ==
    /\ Len(alert) = Len(local)
    /\ \A i \in 1..Len(alert) : alert[i].severity = LocalLevel(local[i].severity)

AlertCalls(upload) == SelectSeq(upload.calls, LAMBDA c : c.table = "alerts")

KeptAsPrefix(before, after) ==
    /\ Len(before) <= Len(after)
    /\ SubSeq(after, 1, Len(before)) = before

KeptOrDeletedByPool(before, after) ==
    \/ after = before
    \/ \E p \in Pools : after = SelectSeq(before, LAMBDA r : r.pool_id # p)

RowsAreAppendOnly ==
    [][/\ (\A i \in 1..Len(anomaly_log') : anomaly_log'[i].resolved = 0)
       /\ IF ops' = ops
          THEN /\ KeptAsPrefix(pool_summary, pool_summary')
               /\ KeptAsPrefix(worker_status, worker_status')
               /\ KeptAsPrefix(anomaly_log, anomaly_log')
          ELSE /\ KeptOrDeletedByPool(pool_summary, pool_summary')
               /\ KeptOrDeletedByPool(worker_status, worker_status')
               /\ KeptOrDeletedByPool(anomaly_log, anomaly_log')]_vars

\* C22 case: after the second cycle of pool p1 and an upload, the Snapshot, the
\* worker row and the anomaly record of its first cycle are still the first
\* rows of their tables
FirstCycleRowsKept ==
    /\ cycle["p1"] = 2
    /\ pc["p1"] = "done"
    /\ sent.result = "True"
    /\ Cardinality(RowsOf(pool_summary, "p1")) = 2
    /\ Cardinality(RowsOf(worker_status, "p1")) = 2
    /\ Cardinality(RowsOf(anomaly_log, "p1")) = 2
    /\ pool_summary[1].id = 1 /\ worker_status[1].id = 1
    /\ anomaly_log[1].id = 1 /\ anomaly_log[1].resolved = 0

\* the condition of the offline rule on the checked cycle: the offline count
\* is an integer above 0
OfflineHolds == IsIntLiteral(chk.offline) /\ DigitsValue(chk.offline) > 0

\* the condition of the hashrate rule on the checked cycle: at least 2 rows,
\* a current value and rows after the newest that normalize, and a current
\* value below 0.8 times the mean of those rows
DropHolds ==
    /\ Len(chk.history) >= 2
    /\ Normalizes(chk.current_hr)
    /\ \A i \in 2..Len(TenNewest) : Normalizes(TenNewest[i].current_hashrate)
    /\ QLess(QMul(Normalized(chk.current_hr), <<DropFactorDen, 1>>),
             QMul(ReferenceAverage(TenNewest), <<DropFactorNum, 1>>))

\* the rows at the end of anomaly_log are the records of the checked cycle
AppendedAtEnd ==
    /\ Len(chk.appended) <= Len(anomaly_log)
    /\ \A i \in 1..Len(chk.appended) :
           LET row == anomaly_log[Len(anomaly_log) - Len(chk.appended) + i]
           IN  /\ row.pool_id = chk.pool
               /\ row.anomaly_type = chk.appended[i].type

\* C23: every cycle in which a rule's condition holds appends exactly one
\* record of that rule to anomaly_log, whatever records of that type the log
\* already holds, so that k such cycles append k records; a cycle in which
\* no rule's condition holds appends none.
EveryFiringCycleAppends ==
    chk.cycle # 0 =>
        /\ AppendedAtEnd
        /\ Len(Appended("OFFLINE_WORKERS")) = (IF OfflineHolds THEN 1 ELSE 0)
        /\ Len(Appended("HASHRATE_DROP")) = (IF DropHolds THEN 1 ELSE 0)
        /\ Len(chk.appended) =
               Len(Appended("OFFLINE_WORKERS")) + Len(Appended("HASHRATE_DROP"))


\* C24: a step of upload_latest changes no local table; a step of
\* check_anomalies changes no local table other than anomaly_log; a step of
\* save_to_database, committed or failed, changes no local table other than
\* pool_summary, worker_status and daily_earnings.
WriteOwnershipRespected ==
    [][/\ (sent' # sent) =>
              UNCHANGED <<pool_metadata, pool_summary, worker_status, daily_earnings,
                          anomaly_log>>
       /\ \A p \in Pools :
              (pc[p] = "saved" /\ pc'[p] # "saved") =>
                  UNCHANGED <<pool_metadata, pool_summary, worker_status, daily_earnings>>
       /\ \A p \in Pools :
              (pc[p] = "extracted" /\ pc'[p] # "extracted") =>
                  UNCHANGED <<pool_metadata, anomaly_log>>]_vars

\* C24 case: pool p1 was saved and checked, with a record appended; the save
\* of pool p2 failed; an upload has read a store that holds anomaly records
EveryOwnerActed ==
    /\ pc["p1"] = "done"
    /\ Len(anomaly_log) > 0
    /\ pc["p2"] = "failed"
    /\ write_failed["p2"]
    /\ sent.result = "True"
    /\ Cardinality(RowsOf(pool_summary, "p1")) = 1


\* C25: a step that is not a PoolManager operation (constructing a scraper
\* for a pool, a stage of its scrape cycle, an upload) leaves the row of every
\* pool in pool_metadata, with the active flag and the created_at value that
\* it had.
CoreOnlyReadsPoolIdentity ==
    [][(ops' = ops) =>
           \A r \in pool_metadata :
               \E q \in pool_metadata' : /\ q.pool_id = r.pool_id
                                         /\ q.active = r.active
                                         /\ q.created_at = r.created_at]_vars


\* a write of pool p failed or was lost while another pipeline held the write
\* lock of the store
LostToAnotherWriter(p) ==
    \/ pc[p] = "failed" /\ write_failed[p]
    \/ chk.pool = p /\ chk.err = OperationalError

\* C26: with the pipelines of several pools running at the same time on one
\* store file, at most one of them is inside an uncommitted write at any
\* time, and no write of a pipeline fails or is lost because another
\* pipeline was writing.
WritesAreSerialized ==
    /\ Cardinality(Writers) <= 1
    /\ \A p \in Pools : ~LostToAnotherWriter(p)


\* the pipeline of pool p has been run in this invocation, to its end or to
\* its failure
HasRun(p) == pc[p] \in {"done", "failed"}

\* C27: in one invocation over the active pools, the failure of the run of
\* one pool leaves every other pool's pipeline to be run: once a pool has
\* failed, every pool has eventually been run; no pool is run twice.
FailureLeavesOthersToRun ==
    \A p \in Pools : \A q \in Pools : (pc[p] = "failed") ~> HasRun(q)


\* a table row that the worker list may take: at least 5 cells, a name, and a
\* status text that is ONLINE or OFFLINE once trimmed
WellFormed(cells) ==
    /\ Len(cells) >= 5
    /\ strip(cells[1]) # <<>>
    /\ strip(cells[2]) \in {StatusOnline, StatusOffline}

NamedWithStatus(name, status) == name # <<>> /\ status \in {"ONLINE", "OFFLINE"}

\* C28: every extracted worker and every persisted worker row has a name and
\* the status ONLINE or OFFLINE; the extracted workers are those of the
\* well-formed rows of the table, in their order, so that a row of another
\* status or of fewer than 5 cells yields none; no cycle fails.
OnlyWellFormedRowsYieldWorkers ==
    /\ \A i \in 1..Len(worker_status) :
           NamedWithStatus(worker_status[i].worker_name, worker_status[i].status)
    /\ \A p \in Pools :
           /\ pc[p] # "failed"
           /\ \A i \in 1..Len(data[p].workers) :
                  NamedWithStatus(data[p].workers[i].name, data[p].workers[i].status)
           /\ (pc[p] \in {"extracted", "saved"}) =>
                  /\ Len(data[p].workers) = Len(SelectSeq(page[p].rows, WellFormed))
                  /\ \A i \in 1..Len(data[p].workers) :
                         data[p].workers[i].name =
                             strip(SelectSeq(page[p].rows, WellFormed)[i][1])

\* C28 case: a table of a DEGRADED row and an ONLINE row was extracted and
\* saved, and the store holds the one row of the ONLINE worker
DegradedRowDropped ==
    /\ pc["p1"] = "done"
    /\ page["p1"].rows = <<RowDegraded, RowOnline>>
    /\ Len(worker_status) = 1
    /\ worker_status[1].worker_name = Rig(1)
    /\ worker_status[1].status = "ONLINE"


\* C29: in every checked cycle an OFFLINE_WORKERS record is appended exactly
\* when the offline count is an integer above 0, whatever the evaluation of
\* the hashrate rule did, and a HASHRATE_DROP record is appended exactly when
\* the current hashrate and the history satisfy the drop condition, whatever
\* the evaluation of the offline rule did.
RulesAreIndependent ==
    chk.cycle # 0 =>
        /\ OfflineHolds <=> (Appended("OFFLINE_WORKERS") # <<>>)
        /\ DropHolds <=> (Appended("HASHRATE_DROP") # <<>>)

====
